---- MODULE Spec2Model ----
(***************************************************************************)
(* Model of the memr belief store (src/src/storage/belief-store.ts), its  *)
(* full-text index and embeddings, the event log, the sessions, the        *)
(* configuration loader, the commands that drive them, and the calls of    *)
(* concurrent callers on one database.                                     *)
(*                                                                         *)
(* Units.  Confidence is a REAL column; the model keeps it in thousandths  *)
(* (0.3 is 300, 1.0 is 1000, 0.01 is 10), which is exact for every value   *)
(* the model feeds in.  Timestamps are integers as Date.now() produces     *)
(* them, counted in seconds instead of milliseconds to stay inside TLC's   *)
(* 32-bit integers.                                                        *)
(***************************************************************************)
EXTENDS Integers, Sequences, FiniteSets, TLC

VARIABLES
    beliefs,    \* the rows of table beliefs, in rowid (insertion) order
    beliefs_fts,\* the full-text index beliefs_fts: an entry per rowid
    events,     \* the rows of table events, in rowid order
    now,        \* the value Date.now() returns
    last,       \* the last call made: its name, the id it addressed, its result
    sessions,   \* the rows of table sessions, in rowid order
    configFile, \* the content of .memorai/config.json, NULL without the file
    cachedConfig,\* cachedConfig of config.ts: NULL or the configuration loaded
    calls       \* the calls of concurrent callers, begun or returned

vars ==
    <<beliefs, beliefs_fts, events, now, last, sessions, configFile,
      cachedConfig, calls>>

\* SQL NULL / JavaScript undefined.  A value that may be absent is kept as
\* NULL or as <<v>>.
NULL == <<>>

Some(v) == <<v>>

Get(x) == x[1]

----------------------------------------------------------------------------
(* Configuration: DEFAULT_CONFIG of types.ts, as loadConfig returns it.    *)

minConfidenceFloor == 300
confidenceDecayPerDay == 10
contradictionThreshold == 3

\* the literal 1.0 of MIN(1.0, confidence + ?)
MaxConfidence == 1000

\* 24 * 60 * 60 * 1000 ms, in the model's seconds
dayInMs == 24 * 60 * 60

\* The model's clock moves in half days, so that elapsed times with a
\* fractional number of days occur.
HalfDay == dayInMs \div 2

\* Date.now() when the store is opened.
StartTime == 200 * HalfDay

----------------------------------------------------------------------------
(* Bounds of the model.                                                    *)

MaxBeliefs == 2     \* rows in table beliefs
MaxBeliefsDeep == 1 \* the same, where one belief is explored in depth
MaxEvents == 1      \* rows in table events
MaxTicks == 1       \* half days the clock advances
MaxSupport == 1     \* largest value supporting_count is driven to
MaxLimit == 2       \* largest limit a search is given
MaxOrdered == 3     \* rows in table beliefs, where they are listed in order
MaxLen == 2         \* characters of a text handed to generateEmbedding
MaxDim == 2         \* entries of a vector handed to cosineSimilarity
MaxLogged == 2      \* rows in table events, where the log is explored
MaxSessions == 2    \* rows in table sessions
MaxCallers == 2     \* calls concurrent callers make

----------------------------------------------------------------------------
(* Values.                                                                 *)

BeliefDomain ==
    {"code_pattern", "user_preference", "project_structure",
     "workflow", "decision", "constraint"}

EventType ==
    {"tool_call", "user_message", "assistant_message", "observation",
     "file_change", "error", "session_start", "session_end"}

Max(a, b) == IF a >= b THEN a ELSE b
Min(a, b) == IF a <= b THEN a ELSE b

\* x || null, for an optional number and for an optional string: the falsy
\* values 0 and "" become null as undefined does.
NumOrNull(x) == IF x = NULL \/ x = Some(0) THEN NULL ELSE x

StrOrNull(x) == IF x = NULL \/ x = Some("") THEN NULL ELSE x

\* SQLite's "/" on two INTEGER operands: the quotient truncated toward zero.
\* bun:sqlite binds an integral JavaScript number as INTEGER, and
\* last_evaluated has INTEGER affinity, so (now - last_evaluated) / dayInMs
\* is this division.
SqlIntDiv(a, b) ==
    IF a >= 0 THEN a \div b ELSE -((-a) \div b)

\* The triggers beliefs_ai and beliefs_au of sqlite.ts: every row an INSERT
\* or UPDATE writes gets its index entry replaced by its new text and tags.
FtsEntry(row) == [text |-> row.text, tags |-> row.tags]

\* Mutant: only the insert trigger exists; an update leaves the entry of
\* the row as it was.
WriteRows_InsertOnly(rows, written) ==
    /\ beliefs' = rows
    /\ beliefs_fts' =
        [i \in 1..Len(rows) |->
            IF i > Len(beliefs_fts) THEN FtsEntry(rows[i]) ELSE beliefs_fts[i]]

\* The table becomes rows, of which the statement wrote those in written.
WriteRows(rows, written) ==
    /\ beliefs' = rows
    /\ beliefs_fts' =
        [i \in 1..Len(rows) |->
            IF i \in written THEN FtsEntry(rows[i]) ELSE beliefs_fts[i]]

Exists(id) == id \in 1..Len(beliefs)

IsActive(b) == b.invalidated_at = NULL

----------------------------------------------------------------------------
(* utils/embeddings.ts                                                     *)
(*                                                                         *)
(* A text is the sequence of its UTF-16 code units.  A vector of numbers   *)
(* is kept sparse: its length and its non-zero entries (index from 0).     *)
(* generateEmbedding's result is kept before its division by the norm,     *)
(* scaled by EmbScale, with unit = TRUE; cosineSimilarity, which divides   *)
(* by both norms itself, gives the same value on it.                       *)

\* the default of generateEmbedding's parameter dims
DefaultDims == 384

\* common denominator of the weights 1/(i+1), 0.5/(i+1) and 0.3 for i < 3
EmbScale == 6 * 10

\* Mutant: the text is hashed as it is written.
toLowerCase_AsWritten(text) == text

toLowerCase(text) ==
    [i \in 1..Len(text) |->
        IF text[i] >= 65 /\ text[i] <= 90 THEN text[i] + 32 ELSE text[i]]

\* Mutant: the primary hash of the first character is left out.
Contributions_SkipFirst(normalized, i, dims) ==
    LET charCode == normalized[i + 1]
        primary ==
            IF i > 0
            THEN {<<0, (charCode * (i + 1)) % dims, EmbScale \div (i + 1)>>}
            ELSE {}
        bigram ==
            IF i > 0
            THEN {<<1, ((normalized[i] * 31) + charCode) % dims,
                    (EmbScale \div 2) \div (i + 1)>>}
            ELSE {}
        boundary ==
            IF charCode = 32 /\ i < Len(normalized) - 1
            THEN {<<2, (normalized[i + 2] * 17 + i) % dims,
                    (3 * EmbScale) \div 10>>}
            ELSE {}
    IN  {<<i, c[1], c[2], c[3]>> : c \in primary \cup bigram \cup boundary}

\* The additions the loop makes at position i (0-based): <<index, weight>>.
Contributions(normalized, i, dims) ==
    LET charCode == normalized[i + 1]
        primary == {<<0, (charCode * (i + 1)) % dims, EmbScale \div (i + 1)>>}
        bigram ==
            IF i > 0
            THEN {<<1, ((normalized[i] * 31) + charCode) % dims,
                    (EmbScale \div 2) \div (i + 1)>>}
            ELSE {}
        boundary ==
            IF charCode = 32 /\ i < Len(normalized) - 1
            THEN {<<2, (normalized[i + 2] * 17 + i) % dims,
                    (3 * EmbScale) \div 10>>}
            ELSE {}
    IN  {<<i, c[1], c[2], c[3]>> : c \in primary \cup bigram \cup boundary}

RECURSIVE SumWeights(_)
SumWeights(cs) ==
    IF cs = {} THEN 0
    ELSE LET c == CHOOSE x \in cs : TRUE
         IN  c[4] + SumWeights(cs \ {c})

generateEmbedding(text, dims) ==
    LET normalized == toLowerCase(text)
        all == UNION {Contributions(normalized, i, dims) :
                        i \in 0..(Len(normalized) - 1)}
        hit == {c[3] : c \in all}
    IN  [ len  |-> dims,
          unit |-> TRUE,
          w    |-> [k \in hit |-> SumWeights({c \in all : c[3] = k})] ]

RECURSIVE Dot(_, _, _)
Dot(a, b, ks) ==
    IF ks = {} THEN 0
    ELSE LET k == CHOOSE x \in ks : TRUE
         IN  a[k] * b[k] + Dot(a, b, ks \ {k})

Norm2(v) == Dot(v.w, v.w, DOMAIN v.w)

\* Math.sqrt, rounded down to an integer; exact on the perfect squares the
\* model's vectors have as squared norms.
RECURSIVE SqrtFrom(_, _)
SqrtFrom(n, r) == IF (r + 1) * (r + 1) > n THEN r ELSE SqrtFrom(n, r + 1)

Sqrt(n) == SqrtFrom(n, 0)

\* A call that can throw yields Throw or Return(value).
Throw == [error |-> "Error"]

Return(v) == [value |-> v]

Threw(r) == "error" \in DOMAIN r

\* Mutant: vectors of different lengths are compared over the entries
\* both have.
cosineSimilarity_NoLengthCheck(a, b) ==
    LET dotProduct == Dot(a.w, b.w, DOMAIN a.w \cap DOMAIN b.w)
        magnitude == Sqrt(Norm2(a)) * Sqrt(Norm2(b))
    IN  IF magnitude = 0 THEN Return(0)
        ELSE Return(SqlIntDiv(1000 * dotProduct, magnitude))

\* Scores are kept in thousandths, rounded toward zero.
cosineSimilarity(a, b) ==
    IF a.len # b.len THEN Throw
    ELSE LET dotProduct == Dot(a.w, b.w, DOMAIN a.w \cap DOMAIN b.w)
             magnitude == Sqrt(Norm2(a)) * Sqrt(Norm2(b))
         IN  IF magnitude = 0 THEN Return(0)
             ELSE Return(SqlIntDiv(1000 * dotProduct, magnitude))

----------------------------------------------------------------------------
(* BeliefStore.create                                                      *)

CreateRow(id, belief, embedding) ==
    [ id                  |-> id,
      text                |-> belief.text,
      domain              |-> belief.domain,
      confidence          |-> belief.confidence,
      evidence_ids        |-> belief.evidence_ids,
      supporting_count    |-> belief.supporting_count,
      contradicting_count |-> belief.contradicting_count,
      derived_at          |-> belief.derived_at,
      last_evaluated      |-> belief.last_evaluated,
      supersedes_id       |-> NumOrNull(belief.supersedes_id),
      invalidated_at      |-> NumOrNull(belief.invalidated_at),
      invalidation_reason |-> StrOrNull(belief.invalidation_reason),
      importance          |-> belief.importance,
      tags                |-> belief.tags,
      embedding           |-> embedding ]

\* Mutant: the id of the first stored belief is handed out again.
FreshId_Reuse == IF beliefs = <<>> THEN 1 ELSE beliefs[1].id

\* uuidv4(): an id no stored belief has.
FreshId == Len(beliefs) + 1

\* { id, ...belief, embedding }: the record create returns, with the
\* caller's fields as the caller gave them.
FullBelief(id, belief, embedding) ==
    [f \in DOMAIN belief \cup {"id"} |->
        IF f = "id" THEN id
        ELSE IF f = "embedding" THEN embedding
        ELSE belief[f]]

Create(belief) ==
    LET id == FreshId
        embedding ==
            IF belief.embedding = NULL
            THEN Some(generateEmbedding(belief.text, DefaultDims))
            ELSE belief.embedding
        fullBelief == FullBelief(id, belief, embedding)
    IN  /\ WriteRows(Append(beliefs, CreateRow(id, belief, embedding)),
                     {Len(beliefs) + 1})
        /\ last' = [op |-> "create", arg |-> NULL, ret |-> fullBelief]
        /\ UNCHANGED <<events, now, sessions, configFile, cachedConfig, calls>>

----------------------------------------------------------------------------
(* BeliefStore.getById, update                                             *)

rowToBelief(row) ==
    [row EXCEPT !.supersedes_id = NumOrNull(@),
                !.invalidated_at = NumOrNull(@),
                !.invalidation_reason = StrOrNull(@)]

getById(id) ==
    IF Exists(id) THEN Some(rowToBelief(beliefs[id])) ELSE NULL

\* The fields update writes when changes supplies them.  changes is a
\* function from the names of the supplied fields to their values.
UpdatableFields ==
    {"text", "confidence", "evidence_ids", "supporting_count",
     "contradicting_count", "last_evaluated", "importance", "tags",
     "embedding"}

\* Mutant: a write also stamps last_evaluated with the time of the call.
UpdatedRow_TouchEvaluated(row, changes) ==
    [f \in DOMAIN row |->
        IF f \in UpdatableFields \cap DOMAIN changes
        THEN IF f = "embedding" THEN Some(changes[f]) ELSE changes[f]
        ELSE IF f = "last_evaluated" THEN now
        ELSE row[f]]

UpdatedRow(row, changes) ==
    [f \in DOMAIN row |->
        IF f \in UpdatableFields \cap DOMAIN changes
        THEN IF f = "embedding" THEN Some(changes[f]) ELSE changes[f]
        ELSE row[f]]

Update(id, changes) ==
    LET existing == getById(id)
        updates == UpdatableFields \cap DOMAIN changes
        written == [beliefs EXCEPT ![id] = UpdatedRow(@, changes)]
    IN  /\ IF existing = NULL \/ updates = {}
           THEN UNCHANGED <<beliefs, beliefs_fts>>
           ELSE WriteRows(written, {id})
        /\ last' =
            [op  |-> "update",
             arg |-> id,
             ret |-> IF existing = NULL THEN NULL
                     ELSE IF updates = {} THEN existing
                     ELSE Some(rowToBelief(written[id]))]
        /\ UNCHANGED <<events, now, sessions, configFile, cachedConfig, calls>>

----------------------------------------------------------------------------
(* BeliefStore.invalidate                                                  *)

\* Mutant: the WHERE clause without "id = ?".
InvalidateTargets_AnyId(id) ==
    {i \in 1..Len(beliefs) : beliefs[i].invalidated_at = NULL}

\* Mutant: the WHERE clause without "AND invalidated_at IS NULL".
InvalidateTargets_NoGuard(id) ==
    {i \in 1..Len(beliefs) : i = id}

\* The rows the UPDATE's WHERE clause selects: id = ? AND invalidated_at
\* IS NULL.
InvalidateTargets(id) ==
    {i \in 1..Len(beliefs) : i = id /\ beliefs[i].invalidated_at = NULL}

\* Mutant: the reason is not written.
InvalidatedRow_NoReason(row, reason) ==
    [row EXCEPT !.invalidated_at = Some(now)]

\* SET invalidated_at = Date.now(), invalidation_reason = reason
InvalidatedRow(row, reason) ==
    [row EXCEPT !.invalidated_at = Some(now),
                !.invalidation_reason = Some(reason)]

Invalidate(id, reason) ==
    LET targets == InvalidateTargets(id)
    IN  /\ WriteRows([i \in 1..Len(beliefs) |->
                        IF i \in targets
                        THEN InvalidatedRow(beliefs[i], reason)
                        ELSE beliefs[i]],
                     targets)
        /\ last' = [op  |-> "invalidate",
                    arg |-> id,
                    ret |-> Cardinality(targets) > 0]
        /\ UNCHANGED <<events, now, sessions, configFile, cachedConfig, calls>>

----------------------------------------------------------------------------
(* BeliefStore.incrementContradicting, incrementSupporting                 *)

\* Mutant: a belief whose counter reaches the threshold is invalidated.
ContradictedRow_AutoInvalidate(row) ==
    IF row.contradicting_count + 1 >= contradictionThreshold
    THEN [row EXCEPT !.contradicting_count = @ + 1,
                     !.invalidated_at = Some(now),
                     !.invalidation_reason = Some("contradicted")]
    ELSE [row EXCEPT !.contradicting_count = @ + 1]

\* SET contradicting_count = contradicting_count + 1
ContradictedRow(row) ==
    [row EXCEPT !.contradicting_count = @ + 1]

IncrementContradicting(id) ==
    /\ WriteRows([i \in 1..Len(beliefs) |->
                    IF i = id THEN ContradictedRow(beliefs[i]) ELSE beliefs[i]],
                 {id} \cap (1..Len(beliefs)))
    /\ last' = [op |-> "incrementContradicting", arg |-> id, ret |-> NULL]
    /\ UNCHANGED <<events, now, sessions, configFile, cachedConfig, calls>>

\* Mutant: reinforcement also raises the confidence.
SupportedRow_Reinforce(row) ==
    [row EXCEPT !.supporting_count = @ + 1,
                !.confidence = Min(MaxConfidence, @ + 50)]

\* SET supporting_count = supporting_count + 1
SupportedRow(row) ==
    [row EXCEPT !.supporting_count = @ + 1]

IncrementSupporting(id) ==
    /\ WriteRows([i \in 1..Len(beliefs) |->
                    IF i = id THEN SupportedRow(beliefs[i]) ELSE beliefs[i]],
                 {id} \cap (1..Len(beliefs)))
    /\ last' = [op |-> "incrementSupporting", arg |-> id, ret |-> NULL]
    /\ UNCHANGED <<events, now, sessions, configFile, cachedConfig, calls>>

----------------------------------------------------------------------------
(* loadConfig of config.ts, for the two settings the store reads.          *)

DEFAULT_CONFIG ==
    [ minConfidenceFloor    |-> minConfidenceFloor,
      confidenceDecayPerDay |-> confidenceDecayPerDay ]

\* { ...DEFAULT_CONFIG, ...JSON.parse(content) }, DEFAULT_CONFIG when the
\* file does not exist.
readConfig ==
    [k \in DOMAIN DEFAULT_CONFIG |->
        IF configFile # NULL /\ k \in DOMAIN Get(configFile)
        THEN Get(configFile)[k]
        ELSE DEFAULT_CONFIG[k]]

\* Mutant: the file is read at every call.
loadConfig_Uncached == readConfig

\* if (cachedConfig) return cachedConfig; otherwise the file is read.  The
\* caller of loadConfig stores what it returns in cachedConfig.
loadConfig ==
    IF cachedConfig # NULL THEN Get(cachedConfig) ELSE readConfig

----------------------------------------------------------------------------
(* BeliefStore.adjustConfidence                                            *)

\* Mutant: the floor is not applied.
AdjustedConfidence_NoFloor(confidence, delta) ==
    Min(MaxConfidence, confidence + delta)

\* MAX(floor, MIN(1.0, confidence + delta))
AdjustedConfidence(confidence, delta) ==
    Max(loadConfig.minConfidenceFloor, Min(MaxConfidence, confidence + delta))

\* ids is the set of the ids listed: WHERE id IN (...).
AdjustConfidence(ids, delta) ==
    /\ IF ids = {}
       THEN UNCHANGED <<beliefs, beliefs_fts>>
       ELSE WriteRows([i \in 1..Len(beliefs) |->
                        IF i \in ids
                        THEN [beliefs[i] EXCEPT
                                !.confidence = AdjustedConfidence(@, delta)]
                        ELSE beliefs[i]],
                      ids \cap (1..Len(beliefs)))
    /\ cachedConfig' = IF ids = {} THEN cachedConfig ELSE Some(loadConfig)
    /\ last' = [op |-> "adjustConfidence", arg |-> NULL, ret |-> NULL]
    /\ UNCHANGED <<events, now, sessions, configFile, calls>>

----------------------------------------------------------------------------
(* BeliefStore.applyConfidenceDecay                                        *)

\* The domains an event of each type puts on the clock, as the README's
\* section on decay lists them.
DomainsOfEvent(type) ==
    CASE type = "file_change" -> {"code_pattern", "project_structure"}
      [] type = "tool_call" -> {"workflow", "code_pattern"}
      [] type = "user_message" -> {"user_preference"}
      [] type = "error" -> {"code_pattern"}
      [] OTHER -> {}

\* Mutant: the sweep is gated on events in the belief's domain.
DecayTargets_DomainGated ==
    {i \in 1..Len(beliefs) :
        /\ beliefs[i].invalidated_at = NULL
        /\ beliefs[i].confidence > loadConfig.minConfidenceFloor
        /\ \E e \in 1..Len(events) :
              beliefs[i].domain \in DomainsOfEvent(events[e].type)}

\* Mutant: the sweep goes row by row, a call changing the first row due.
DecayTargets_RowByRow ==
    LET due == {i \in 1..Len(beliefs) :
                    /\ beliefs[i].invalidated_at = NULL
                    /\ beliefs[i].confidence > loadConfig.minConfidenceFloor}
    IN  {i \in due : \A j \in due : i <= j}

\* WHERE invalidated_at IS NULL AND confidence > floor
DecayTargets ==
    {i \in 1..Len(beliefs) :
        /\ beliefs[i].invalidated_at = NULL
        /\ beliefs[i].confidence > loadConfig.minConfidenceFloor}

\* MAX(floor, confidence - decayPerDay * ((now - last_evaluated) / dayInMs))
DecayedConfidence(row) ==
    Max(loadConfig.minConfidenceFloor,
        row.confidence
          - loadConfig.confidenceDecayPerDay
              * SqlIntDiv(now - row.last_evaluated, dayInMs))

ApplyConfidenceDecay ==
    /\ WriteRows([i \in 1..Len(beliefs) |->
                    IF i \in DecayTargets
                    THEN [beliefs[i] EXCEPT
                            !.confidence = DecayedConfidence(beliefs[i])]
                    ELSE beliefs[i]],
                 DecayTargets)
    /\ last' = [op  |-> "applyConfidenceDecay",
                arg |-> NULL,
                ret |-> Cardinality(DecayTargets)]
    /\ cachedConfig' = Some(loadConfig)
    /\ UNCHANGED <<events, now, sessions, configFile, calls>>

----------------------------------------------------------------------------
(* The read paths of BeliefStore.                                          *)
(*                                                                         *)
(* An options object is a record of limit, minConfidence, domain and       *)
(* activeOnly, each NULL when the caller leaves it out.                    *)

\* if (options.limit), if (options.minConfidence): present and not 0
Truthy(x) == x # NULL /\ x # Some(0)

\* the 10 of options.limit || 10
DefaultLimit == 10

\* options.limit || 10
LimitOrDefault(options) ==
    IF Truthy(options.limit) THEN Get(options.limit) ELSE DefaultLimit

\* s in descending order of the pairs key[i] of its elements, first
\* component first; elements with equal keys stay in the order of s.  This
\* is ORDER BY x DESC, y DESC over the rows in rowid order, and Array.sort
\* with (a, b) => b.score - a.score.
SortDescending(s, key) ==
    LET n == Len(s)
        Before(j, i) ==
            \/ key[j][1] > key[i][1]
            \/ key[j][1] = key[i][1] /\ key[j][2] > key[i][2]
            \/ key[j] = key[i] /\ j < i
        pos(i) == 1 + Cardinality({j \in 1..n : j # i /\ Before(j, i)})
    IN  [p \in 1..n |-> s[CHOOSE i \in 1..n : pos(i) = p]]

\* LIMIT ?, appended when options.limit is truthy; a negative LIMIT is no
\* limit.
Limit(rows, limit) ==
    IF Truthy(limit) /\ Get(limit) >= 0
    THEN SubSeq(rows, 1, Min(Get(limit), Len(rows)))
    ELSE rows

\* Mutant: the last n elements are kept.
Slice_FromEnd(s, n) ==
    SubSeq(s, Len(s) - Min(Max(n, 0), Len(s)) + 1, Len(s))

\* Array.slice(0, n)
Slice(s, n) ==
    SubSeq(s, 1, IF n >= 0 THEN Min(n, Len(s)) ELSE Max(0, Len(s) + n))

\* Mutant: invalidated rows are left out only when activeOnly is true.
ActiveFilter_OptIn(options, row) ==
    options.activeOnly = Some(TRUE) => row.invalidated_at = NULL

\* if (options.activeOnly !== false) ... AND invalidated_at IS NULL
ActiveFilter(options, row) ==
    options.activeOnly # Some(FALSE) => row.invalidated_at = NULL

\* if (options.minConfidence) ... AND confidence >= ?
ConfidenceFilter(options, row) ==
    Truthy(options.minConfidence) =>
        row.confidence >= Get(options.minConfidence)

\* if (options.domain) ... AND domain = ?
DomainFilter(options, row) ==
    StrOrNull(options.domain) # NULL => row.domain = Get(options.domain)

\* Mutant: ORDER BY importance DESC, confidence DESC
getByDomain_ImportanceFirst(domain, options) ==
    LET Selected(row) == row.domain = domain /\ ActiveFilter(options, row)
        rows == SelectSeq(beliefs, Selected)
        key == [i \in 1..Len(rows) |->
                    <<rows[i].importance, rows[i].confidence>>]
        ordered == SortDescending(rows, key)
    IN  [i \in 1..Len(ordered) |-> rowToBelief(ordered[i])]

getByDomain(domain, options) ==
    LET Selected(row) == row.domain = domain /\ ActiveFilter(options, row)
        rows == SelectSeq(beliefs, Selected)
        key == [i \in 1..Len(rows) |->
                    <<rows[i].confidence, rows[i].importance>>]
        ordered == SortDescending(rows, key)
    IN  [i \in 1..Len(ordered) |-> rowToBelief(ordered[i])]

getActive(options) ==
    LET Selected(row) ==
            /\ row.invalidated_at = NULL
            /\ ConfidenceFilter(options, row)
            /\ DomainFilter(options, row)
        rows == SelectSeq(beliefs, Selected)
        key == [i \in 1..Len(rows) |->
                    <<rows[i].importance, rows[i].confidence>>]
        limited == Limit(SortDescending(rows, key), options.limit)
    IN  [i \in 1..Len(limited) |-> rowToBelief(limited[i])]

\* Mutant: the domain filter is left out of the count.
count_AnyDomain(options) ==
    Cardinality({i \in 1..Len(beliefs) : ActiveFilter(options, beliefs[i])})

count(options) ==
    Cardinality({i \in 1..Len(beliefs) :
                    /\ ActiveFilter(options, beliefs[i])
                    /\ DomainFilter(options, beliefs[i])})

RECURSIVE SumConfidence(_)
SumConfidence(ids) ==
    IF ids = {} THEN 0
    ELSE LET i == CHOOSE x \in ids : TRUE
         IN  beliefs[i].confidence + SumConfidence(ids \ {i})

\* Mutant: the WHERE invalidated_at IS NULL is left out.
getStatsPerDomain_AllRows ==
    LET active == 1..Len(beliefs)
        group(d) == {i \in active : beliefs[i].domain = d}
    IN  [d \in {beliefs[i].domain : i \in active} |->
            [ count         |-> Cardinality(group(d)),
              avgConfidence |->
                    SumConfidence(group(d)) \div Cardinality(group(d)) ]]

\* GROUP BY domain over the active rows; AVG is rounded down to a whole
\* number of thousandths.
getStatsPerDomain ==
    LET active == {i \in 1..Len(beliefs) : beliefs[i].invalidated_at = NULL}
        group(d) == {i \in active : beliefs[i].domain = d}
    IN  [d \in {beliefs[i].domain : i \in active} |->
            [ count         |-> Cardinality(group(d)),
              avgConfidence |->
                    SumConfidence(group(d)) \div Cardinality(group(d)) ]]

----------------------------------------------------------------------------
(* Keyword search over the full-text index.                                *)

IsAlphanumeric(c) ==
    (c >= 48 /\ c <= 57) \/ (c >= 65 /\ c <= 90) \/ (c >= 97 /\ c <= 122)

\* The tokens FTS5's default tokenizer finds in an ASCII text: the maximal
\* runs of letters and digits, case folded.
Tokens(text) ==
    LET t == toLowerCase(text)
        n == Len(t)
        starts == {i \in 1..n :
                    IsAlphanumeric(t[i])
                        /\ (i = 1 \/ ~IsAlphanumeric(t[i - 1]))}
        end(i) == CHOOSE j \in i..n :
                    /\ \A k \in i..j : IsAlphanumeric(t[k])
                    /\ (j = n \/ ~IsAlphanumeric(t[j + 1]))
    IN  {SubSeq(t, i, end(i)) : i \in starts}

\* tags is the sequence of the tags, stored as the JSON text of the array:
\* its brackets, quotes and commas separate the tokens of the tags.
TagTokens(tags) == UNION {Tokens(tags[i]) : i \in 1..Len(tags)}

\* beliefs_fts MATCH ?, for a query of bare words: every word of the query
\* is a token of the entry's text or tags.
Match(entry, query) ==
    Tokens(query) \subseteq Tokens(entry.text) \cup TagTokens(entry.tags)

\* The orders in which a set of rows can come out of ORDER BY rank: the
\* rank is the index's own relevance measure, and rows may tie on it.
Orderings(S) ==
    {s \in [1..Cardinality(S) -> S] :
        \A i, j \in 1..Cardinality(S) : i # j => s[i] # s[j]}

\* The set of the lists the call can return.
searchKeyword(query, options) ==
    LET matching ==
            {i \in 1..Len(beliefs) :
                /\ Match(beliefs_fts[i], query)
                /\ ActiveFilter(options, beliefs[i])
                /\ ConfidenceFilter(options, beliefs[i])
                /\ DomainFilter(options, beliefs[i])}
    IN  {LET limited == Limit(order, options.limit)
         IN  [i \in 1..Len(limited) |-> rowToBelief(beliefs[limited[i]])] :
            order \in Orderings(matching)}

----------------------------------------------------------------------------
(* Semantic and hybrid search.                                             *)

\* Mutant: beliefs whose fingerprint has another length than the query's
\* are left out of the scoring.
searchSemantic_SkipMismatched(query, options) ==
    LET queryEmbedding == generateEmbedding(query, DefaultDims)
        all == getActive([options EXCEPT !.limit = NULL])
        HasEmbedding(b) ==
            /\ b.embedding # NULL
            /\ Get(b.embedding).len = queryEmbedding.len
        withEmbedding == SelectSeq(all, HasEmbedding)
        Similarity(b) == cosineSimilarity(queryEmbedding, Get(b.embedding))
        scored ==
            [i \in 1..Len(withEmbedding) |->
                [ belief    |-> withEmbedding[i],
                  score     |-> Similarity(withEmbedding[i]).value,
                  matchType |-> "semantic" ]]
        key == [i \in 1..Len(scored) |-> <<scored[i].score, 0>>]
    IN  Return(Slice(SortDescending(scored, key), LimitOrDefault(options)))

searchSemantic(query, options) ==
    LET queryEmbedding == generateEmbedding(query, DefaultDims)
        all == getActive([options EXCEPT !.limit = NULL])
        HasEmbedding(b) == b.embedding # NULL
        withEmbedding == SelectSeq(all, HasEmbedding)
        Similarity(b) == cosineSimilarity(queryEmbedding, Get(b.embedding))
        scored ==
            [i \in 1..Len(withEmbedding) |->
                [ belief    |-> withEmbedding[i],
                  score     |-> Similarity(withEmbedding[i]).value,
                  matchType |-> "semantic" ]]
        key == [i \in 1..Len(scored) |-> <<scored[i].score, 0>>]
    IN  IF \E i \in 1..Len(withEmbedding) : Threw(Similarity(withEmbedding[i]))
        THEN Throw
        ELSE Return(Slice(SortDescending(scored, key),
                          LimitOrDefault(options)))

\* Mutant: the keyword score counts positions from 1.
KeywordScore_OneBased(keywordResults, id) ==
    LET at == {i \in 1..Len(keywordResults) : keywordResults[i].id = id}
        i == CHOOSE x \in at : \A y \in at : y <= x
    IN  1000 - i * 100

\* keywordMap.get(id): the entry of the last position of id in
\* keywordResults; its score is 1 - i * 0.1 for the 0-based position i.
KeywordScore(keywordResults, id) ==
    LET at == {i \in 1..Len(keywordResults) : keywordResults[i].id = id}
        i == CHOOSE x \in at : \A y \in at : y <= x
    IN  1000 - (i - 1) * 100

\* The two loops over semanticResults and keywordResults with the set
\* seen, then the sort and the slice.  The mean of two scores is exact:
\* the cosines of the model's vectors are even numbers of thousandths.
Combine(keywordResults, semanticResults, options) ==
    LET keywordIds == {keywordResults[i].id : i \in 1..Len(keywordResults)}
        semanticIds ==
            {semanticResults[i].belief.id : i \in 1..Len(semanticResults)}
        FirstSemantic(i) ==
            \A j \in 1..(i - 1) :
                semanticResults[j].belief.id # semanticResults[i].belief.id
        FirstKeyword(i) ==
            /\ keywordResults[i].id \notin semanticIds
            /\ \A j \in 1..(i - 1) :
                    keywordResults[j].id # keywordResults[i].id
        FromSemantic(i) ==
            LET result == semanticResults[i]
                matched == result.belief.id \in keywordIds
            IN  [ belief    |-> result.belief,
                  score     |->
                        IF matched
                        THEN (result.score
                                + KeywordScore(keywordResults,
                                               result.belief.id)) \div 2
                        ELSE result.score,
                  matchType |-> IF matched THEN "hybrid" ELSE "semantic" ]
        FromKeyword(i) ==
            [ belief    |-> keywordResults[i],
              score     |-> 500,
              matchType |-> "keyword" ]
        keptSemantic ==
            SelectSeq([i \in 1..Len(semanticResults) |-> i], FirstSemantic)
        keptKeyword ==
            SelectSeq([i \in 1..Len(keywordResults) |-> i], FirstKeyword)
        combined ==
            [i \in 1..Len(keptSemantic) |-> FromSemantic(keptSemantic[i])]
                \o [i \in 1..Len(keptKeyword) |-> FromKeyword(keptKeyword[i])]
        key == [i \in 1..Len(combined) |-> <<combined[i].score, 0>>]
    IN  Slice(SortDescending(combined, key), LimitOrDefault(options))

\* The set of the outcomes the call can have, one for each list
\* searchKeyword can return.
searchHybrid(query, options) ==
    LET doubled == [options EXCEPT !.limit = Some(LimitOrDefault(options) * 2)]
        semanticResults == searchSemantic(query, doubled)
    IN  {IF Threw(semanticResults) THEN Throw
         ELSE Return(Combine(keywordResults, semanticResults.value, options)) :
            keywordResults \in searchKeyword(query, doubled)}

----------------------------------------------------------------------------
(* EventStore.capture: an event of the given type is appended to the log,  *)
(* stamped with the current time and not yet processed.                    *)

\* The row capture inserts through create.
CapturedEvent(type, sessionId) ==
    [ id         |-> Len(events) + 1,
      type       |-> type,
      session_id |-> sessionId,
      timestamp  |-> now,
      processed  |-> FALSE ]

Capture(type, sessionId) ==
    /\ events' = Append(events, CapturedEvent(type, sessionId))
    /\ last' = [op |-> "capture", arg |-> NULL, ret |-> Len(events) + 1]
    /\ UNCHANGED <<beliefs, beliefs_fts, now>>
    /\ UNCHANGED <<sessions, configFile, cachedConfig, calls>>

----------------------------------------------------------------------------
(* Time passes between calls: Date.now() moves on by half a day.           *)

Tick ==
    /\ now' = now + HalfDay
    /\ last' = [op |-> "tick", arg |-> NULL, ret |-> NULL]
    /\ UNCHANGED <<beliefs, beliefs_fts, events>>
    /\ UNCHANGED <<sessions, configFile, cachedConfig, calls>>

----------------------------------------------------------------------------
(* The store after construction, and the calls made on it.                 *)

Init ==
    /\ beliefs = <<>>
    /\ beliefs_fts = <<>>
    /\ events = <<>>
    /\ now = StartTime
    /\ last = [op |-> "init", arg |-> NULL, ret |-> NULL]
    /\ sessions = <<>>
    /\ configFile = NULL
    /\ cachedConfig = NULL
    /\ calls = <<>>

\* A belief as a caller hands it to create.
NewBelief(text, domain, confidence, last_evaluated, importance, embedding) ==
    [ text                |-> text,
      domain              |-> domain,
      confidence          |-> confidence,
      evidence_ids        |-> <<>>,
      supporting_count    |-> 0,
      contradicting_count |-> 0,
      derived_at          |-> last_evaluated,
      last_evaluated      |-> last_evaluated,
      supersedes_id       |-> NULL,
      invalidated_at      |-> NULL,
      invalidation_reason |-> NULL,
      importance          |-> importance,
      tags                |-> <<>>,
      embedding           |-> embedding ]

\* The guards that keep a run inside the bounds of the model.
CanCreate(rows) == Len(beliefs) < rows

CanCount(id, field, max) == Exists(id) => beliefs[id][field] < max

CanTick == now < StartTime + MaxTicks * HalfDay

CanCapture == Len(events) < MaxEvents

\* A sweep over a belief evaluated in the future raises its confidence
\* each time: sweeps stop once a confidence is above 1.0.
CanDecay == \A i \in 1..Len(beliefs) : beliefs[i].confidence <= MaxConfidence

\* The ids callers address: those of the rows that can exist, and one more
\* that never does.
IdSpace(rows) == 1..(rows + 1)

ReasonInputs == {"obsolete", "contradicted"}

----------------------------------------------------------------------------
(* SpecConf: the confidence of one belief in depth.  Confidences inside    *)
(* and outside [floor, 1.0]; evaluation times 20.5 and 10 days before the  *)
(* clock and 20.5 days after it.                                           *)

ConfConfidences == {900, 1200}

ConfLastEvaluated == {StartTime - 41 * HalfDay, StartTime - 20 * HalfDay}

ConfChanges ==
    { <<>>,
      [confidence |-> 100],
      [last_evaluated |-> StartTime + 41 * HalfDay] }

ConfDeltas == {-5000, 100}

NextConf ==
    \/ \E c \in ConfConfidences, t \in ConfLastEvaluated :
            /\ CanCreate(MaxBeliefsDeep)
            /\ Create(NewBelief(<<97>>, "code_pattern", c, t, 5, NULL))
    \/ \E id \in IdSpace(MaxBeliefsDeep), ch \in ConfChanges : Update(id, ch)
    \/ \E id \in IdSpace(MaxBeliefsDeep) : Invalidate(id, "obsolete")
    \/ \E ids \in SUBSET IdSpace(MaxBeliefsDeep), delta \in ConfDeltas :
            AdjustConfidence(ids, delta)
    \/ CanDecay /\ ApplyConfidenceDecay

SpecConf == Init /\ [][NextConf]_vars

----------------------------------------------------------------------------
(* SpecLife: the invalidation of one belief in depth: at different times   *)
(* and for different reasons, between calls of every operation that        *)
(* writes to the table.  The increments address the first belief.          *)

LifeChanges ==
    { <<>>, [confidence |-> 700] }

NextLife ==
    \/ /\ CanCreate(MaxBeliefsDeep)
       /\ Create(NewBelief(<<97>>, "user_preference", 700,
                           StartTime - 80 * HalfDay, 5, NULL))
    \/ \E id \in IdSpace(MaxBeliefsDeep), ch \in LifeChanges : Update(id, ch)
    \/ \E id \in IdSpace(MaxBeliefsDeep), r \in ReasonInputs :
            Invalidate(id, r)
    \/ /\ CanCount(1, "contradicting_count", MaxSupport)
       /\ IncrementContradicting(1)
    \/ /\ CanCount(1, "supporting_count", MaxSupport)
       /\ IncrementSupporting(1)
    \/ \E id \in IdSpace(MaxBeliefsDeep) : AdjustConfidence({id}, -5000)
    \/ CanDecay /\ ApplyConfidenceDecay
    \/ CanTick /\ Tick

SpecLife == Init /\ [][NextLife]_vars

----------------------------------------------------------------------------
(* SpecFlag: the evidence counters of one belief driven to the             *)
(* contradiction threshold and its confidence driven to the floor.         *)

NextFlag ==
    \/ /\ CanCreate(MaxBeliefsDeep)
       /\ Create(NewBelief(<<97>>, "user_preference", 700,
                           StartTime - 80 * HalfDay, 5, NULL))
    \/ \E id \in IdSpace(MaxBeliefsDeep), ch \in LifeChanges : Update(id, ch)
    \/ \E id \in IdSpace(MaxBeliefsDeep) : Invalidate(id, "contradicted")
    \/ \E id \in IdSpace(MaxBeliefsDeep) :
            /\ CanCount(id, "contradicting_count", contradictionThreshold)
            /\ IncrementContradicting(id)
    \/ \E id \in IdSpace(MaxBeliefsDeep) :
            /\ CanCount(id, "supporting_count", MaxSupport)
            /\ IncrementSupporting(id)
    \/ \E id \in IdSpace(MaxBeliefsDeep) : AdjustConfidence({id}, -5000)
    \/ CanDecay /\ ApplyConfidenceDecay

SpecFlag == Init /\ [][NextFlag]_vars

----------------------------------------------------------------------------
(* Spec: several beliefs of different domains side by side, with an event  *)
(* log beside them.  A sweep takes 0.6 from a belief evaluated 60 days ago.*)

Deltas == {-5000, 600}

\* The lists of ids adjustConfidence is given: no id, one id, or all the
\* ids of the rows that can exist; those not yet created are ids no belief
\* has.
AdjustedIds ==
    {{}} \cup {{i} : i \in 1..MaxBeliefs} \cup {1..MaxBeliefs}

Next ==
    \/ \E d \in {"code_pattern", "user_preference"} :
            /\ CanCreate(MaxBeliefs)
            /\ Create(NewBelief(<<97>>, d, 900, StartTime - 120 * HalfDay,
                                5, NULL))
    \/ \E id \in IdSpace(MaxBeliefs) : Invalidate(id, "obsolete")
    \/ \E ids \in AdjustedIds, delta \in Deltas :
            AdjustConfidence(ids, delta)
    \/ CanDecay /\ ApplyConfidenceDecay
    \/ CanCapture /\ Capture("file_change", 1)

Spec == Init /\ [][Next]_vars

----------------------------------------------------------------------------
(* SpecSearch: beliefs that differ in text, embedding, confidence and      *)
(* domain, some of them invalidated, under every query and options object  *)
(* of the sets below.  The belief "a" has confidence 0.9 and the           *)
(* embedding generateEmbedding gives its text; the belief "b" has          *)
(* confidence 0.4 and a supplied embedding whose cosine is 0.6 to the      *)
(* query "a" and 0.8 to the query "b", and is created in domain            *)
(* code_pattern.                                                           *)

SearchQueries == {<<97>>, <<98>>}

SuppliedEmbedding ==
    [len |-> DefaultDims, unit |-> FALSE, w |-> (97 :> 3) @@ (98 :> 4)]

SearchBeliefs ==
    { [text |-> <<97>>, confidence |-> 900, embedding |-> NULL],
      [text |-> <<98>>, confidence |-> 400,
       embedding |-> Some(SuppliedEmbedding)] }

SearchDomains == {"code_pattern", "user_preference"}

SearchLimits == {NULL} \cup {Some(n) : n \in 0..MaxLimit}

\* The options objects that leave activeOnly out.
DefaultOptions ==
    [ limit         : SearchLimits,
      minConfidence : {NULL, Some(500)},
      domain        : {NULL, Some("code_pattern")},
      activeOnly    : {NULL} ]

SearchOptions ==
    DefaultOptions \cup
        [ limit         : SearchLimits,
          minConfidence : {NULL},
          domain        : {NULL},
          activeOnly    : {Some(FALSE)} ]

NextSearch ==
    \/ \E b \in SearchBeliefs, d \in SearchDomains :
            /\ b.embedding = NULL \/ d = "code_pattern"
            /\ CanCreate(MaxBeliefs)
            /\ Create(NewBelief(b.text, d, b.confidence, StartTime, 5,
                                b.embedding))
    \/ \E id \in IdSpace(MaxBeliefs) : Invalidate(id, "obsolete")

SpecSearch == Init /\ [][NextSearch]_vars

----------------------------------------------------------------------------
(* SpecCount: the evidence counters of several beliefs side by side, some  *)
(* of them invalidated.                                                    *)

NextCount ==
    \/ /\ CanCreate(MaxBeliefs)
       /\ Create(NewBelief(<<97>>, "workflow", 700, StartTime, 5, NULL))
    \/ \E id \in IdSpace(MaxBeliefs) :
            /\ CanCount(id, "supporting_count", MaxSupport)
            /\ IncrementSupporting(id)
    \/ \E id \in IdSpace(MaxBeliefs) :
            /\ CanCount(id, "contradicting_count", MaxSupport)
            /\ IncrementContradicting(id)
    \/ \E id \in IdSpace(MaxBeliefs) : Invalidate(id, "obsolete")

SpecCount == Init /\ [][NextCount]_vars

----------------------------------------------------------------------------
(* SpecUpdate: the records create and update store and return.  Beliefs    *)
(* are created with and without an embedding of the caller's, and as an    *)
(* archived belief whose reason is the empty string; change sets supply    *)
(* no field, fields update writes, and fields it does not write.           *)

UpdateBeliefs ==
    LET plain ==
            NewBelief(<<97>>, "code_pattern", 900, StartTime - dayInMs, 5,
                      NULL)
    IN  { plain,
          [plain EXCEPT !.embedding = Some(SuppliedEmbedding)],
          [plain EXCEPT !.invalidated_at = Some(StartTime - dayInMs),
                        !.invalidation_reason = Some("")] }

UpdateChanges ==
    { <<>>,
      [text |-> <<98>>],
      [domain |-> "workflow"],
      [domain |-> "workflow", confidence |-> 700, tags |-> <<<<120>>>>] }

NextUpdate ==
    \/ \E b \in UpdateBeliefs : CanCreate(MaxBeliefs) /\ Create(b)
    \/ \E id \in IdSpace(MaxBeliefs), ch \in UpdateChanges : Update(id, ch)

SpecUpdate == Init /\ [][NextUpdate]_vars

----------------------------------------------------------------------------
(* SpecOrder: beliefs of two domains whose confidence and importance rank  *)
(* them differently, some of them invalidated, for the listing and         *)
(* counting reads.                                                         *)

\* <<confidence, importance>> of the beliefs created: the first two tie on
\* confidence, the last two on importance, and the first and the last are
\* ranked one way by confidence and the other way by importance.
OrderRanks == { <<900, 5>>, <<900, 7>>, <<400, 7>> }

OrderDomains == {"workflow", "code_pattern"}

NextOrder ==
    \/ \E r \in OrderRanks, d \in OrderDomains :
            /\ CanCreate(MaxOrdered)
            /\ Create(NewBelief(<<97>>, d, r[1], StartTime, r[2], NULL))
    \/ \E id \in IdSpace(MaxOrdered) : Invalidate(id, "obsolete")

SpecOrder == Init /\ [][NextOrder]_vars

----------------------------------------------------------------------------
(* SpecEmbed: the functions of utils/embeddings.ts called on their own,    *)
(* on short texts in mixed case and on short vectors with and without      *)
(* zero entries.                                                           *)

\* "A", "a", "b" and the space
EmbedChars == {65, 97, 98, 32}

EmbedTexts == UNION {[1..n -> EmbedChars] : n \in 0..MaxLen}

EmbedDims == {2, DefaultDims}

\* The vectors of 1..MaxDim entries drawn from 0, 3 and 4.
EmbedVectors ==
    UNION {{[ len  |-> n,
              unit |-> FALSE,
              w    |-> [k \in {j \in 0..(n - 1) : f[j] # 0} |-> f[k]] ] :
                f \in [0..(n - 1) -> {0, 3, 4}]} : n \in 1..MaxDim}

CallGenerateEmbedding(text, dims) ==
    /\ last' = [op  |-> "generateEmbedding",
                arg |-> [text |-> text, dims |-> dims],
                ret |-> generateEmbedding(text, dims)]
    /\ UNCHANGED <<beliefs, beliefs_fts, events, now>>
    /\ UNCHANGED <<sessions, configFile, cachedConfig, calls>>

CallCosineSimilarity(a, b) ==
    /\ last' = [op  |-> "cosineSimilarity",
                arg |-> [a |-> a, b |-> b],
                ret |-> cosineSimilarity(a, b)]
    /\ UNCHANGED <<beliefs, beliefs_fts, events, now>>
    /\ UNCHANGED <<sessions, configFile, cachedConfig, calls>>

NextEmbed ==
    \/ \E text \in EmbedTexts, dims \in EmbedDims :
            CallGenerateEmbedding(text, dims)
    \/ \E a, b \in EmbedVectors : CallCosineSimilarity(a, b)

SpecEmbed == Init /\ [][NextEmbed]_vars

----------------------------------------------------------------------------
(* SpecDims: beliefs created and updated with embeddings of the caller's,  *)
(* of the configured length and of another.                                *)

\* A caller's vector of two entries.
ShortEmbedding == [len |-> 2, unit |-> FALSE, w |-> (0 :> 3) @@ (1 :> 4)]

DimsEmbeddings == {NULL, Some(SuppliedEmbedding), Some(ShortEmbedding)}

DimsChanges ==
    { [embedding |-> SuppliedEmbedding],
      [embedding |-> ShortEmbedding] }

DimsDomains == {"code_pattern", "workflow"}

\* The filters the searches are given: a domain that some beliefs have, a
\* minimum confidence that no belief reaches.
DimsOptions ==
    [ limit         : {NULL, Some(0), Some(1)},
      minConfidence : {NULL, Some(950)},
      domain        : {NULL, Some("workflow")},
      activeOnly    : {NULL, Some(FALSE)} ]

NextDims ==
    \/ \E e \in DimsEmbeddings, d \in DimsDomains :
            /\ CanCreate(MaxBeliefs)
            /\ Create(NewBelief(<<97>>, d, 900, StartTime, 5, e))
    \/ \E id \in IdSpace(MaxBeliefs), ch \in DimsChanges : Update(id, ch)
    \/ \E id \in IdSpace(MaxBeliefs) : Invalidate(id, "obsolete")

SpecDims == Init /\ [][NextDims]_vars

----------------------------------------------------------------------------
(* SpecRank: beliefs whose keyword match and whose similarity to the query *)
(* "a" disagree: one has the text "a" and a fingerprint at an angle to     *)
(* the query's, one has another text and the query's own fingerprint.      *)

\* A caller's vector along the fingerprint of "a".
AlignedEmbedding == [len |-> DefaultDims, unit |-> FALSE, w |-> (97 :> 5)]

RankBeliefs ==
    { [text |-> <<97>>, embedding |-> NULL],
      [text |-> <<97>>, embedding |-> Some(SuppliedEmbedding)],
      [text |-> <<98>>, embedding |-> Some(AlignedEmbedding)] }

NextRank ==
    \/ \E b \in RankBeliefs :
            /\ CanCreate(MaxBeliefs)
            /\ Create(NewBelief(b.text, "code_pattern", 900, StartTime, 5,
                                b.embedding))
    \/ \E id \in IdSpace(MaxBeliefs) : Invalidate(id, "obsolete")

SpecRank == Init /\ [][NextRank]_vars

----------------------------------------------------------------------------
(* SpecIndex: every statement that writes table beliefs, on a belief whose *)
(* text and tags are rewritten, for the full-text index beside the table.  *)

IndexChanges == { [text |-> <<98>>], [tags |-> <<<<120>>>>] }

NextIndex ==
    \/ /\ CanCreate(MaxBeliefsDeep)
       /\ Create(NewBelief(<<97>>, "code_pattern", 700,
                           StartTime - 80 * HalfDay, 5, NULL))
    \/ \E id \in IdSpace(MaxBeliefsDeep), ch \in IndexChanges : Update(id, ch)
    \/ \E id \in IdSpace(MaxBeliefsDeep) : Invalidate(id, "obsolete")
    \/ \E id \in IdSpace(MaxBeliefsDeep) :
            /\ CanCount(id, "supporting_count", MaxSupport)
            /\ IncrementSupporting(id)
    \/ \E id \in IdSpace(MaxBeliefsDeep) : AdjustConfidence({id}, -5000)
    \/ CanDecay /\ ApplyConfidenceDecay

SpecIndex == Init /\ [][NextIndex]_vars

----------------------------------------------------------------------------
(* The add-belief command of the command line (index.ts).  An option is    *)
(* the text given on the command line, NULL when the option is left out;   *)
(* confidence and importance have the defaults '0.7' and '5'.              *)

\* the comma of split(',')
Comma == 40 + 4

\* text.split(sep): the pieces between the separators, empty ones included.
RECURSIVE split(_, _)
split(text, sep) ==
    IF \A k \in 1..Len(text) : text[k] # sep
    THEN <<text>>
    ELSE LET k == CHOOSE k \in 1..Len(text) :
                    /\ text[k] = sep
                    /\ \A j \in 1..(k - 1) : text[j] # sep
         IN  <<SubSeq(text, 1, k - 1)>>
                \o split(SubSeq(text, k + 1, Len(text)), sep)

\* The value of a text of decimal digits.
RECURSIVE DigitsValue(_)
DigitsValue(digits) ==
    IF digits = <<>> THEN 0
    ELSE 10 * DigitsValue(SubSeq(digits, 1, Len(digits) - 1))
            + (digits[Len(digits)] - 48)

\* parseInt(text, 10), for a text of decimal digits.
parseInt(text) == DigitsValue(text)

\* parseFloat(text), for a text of digits with up to three decimals, in
\* the model's thousandths.
parseFloat(text) ==
    LET dots == {k \in 1..Len(text) : text[k] = 46}
        dot == IF dots = {} THEN Len(text) + 1 ELSE CHOOSE k \in dots : TRUE
        decimals == SubSeq(text, dot + 1, Len(text))
        scale == CASE Len(decimals) = 0 -> 1000
                   [] Len(decimals) = 1 -> 100
                   [] Len(decimals) = 2 -> 10
                   [] OTHER -> 1
    IN  1000 * DigitsValue(SubSeq(text, 1, dot - 1))
            + scale * DigitsValue(decimals)

\* options.evidence ? ... : ..., options.tags ? ... : ...: an option that is
\* given and is not the empty text.
Given(option) == option # NULL /\ Get(option) # <<>>

\* Mutant: the evidence listed is not counted as support.
AddBeliefRecord_Unseeded(options) ==
    [ text                |-> options.text,
      domain              |-> options.domain,
      confidence          |-> parseFloat(options.confidence),
      evidence_ids        |-> IF Given(options.evidence)
                              THEN split(Get(options.evidence), Comma)
                              ELSE <<>>,
      supporting_count    |-> 0,
      contradicting_count |-> 0,
      derived_at          |-> now,
      last_evaluated      |-> now,
      supersedes_id       |-> NULL,
      invalidated_at      |-> NULL,
      invalidation_reason |-> NULL,
      importance          |-> parseInt(options.importance),
      tags                |-> IF Given(options.tags)
                              THEN split(Get(options.tags), Comma)
                              ELSE <<>>,
      embedding           |-> NULL ]

\* The belief the command hands to create; the fields it leaves out are
\* undefined.
AddBeliefRecord(options) ==
    [ text                |-> options.text,
      domain              |-> options.domain,
      confidence          |-> parseFloat(options.confidence),
      evidence_ids        |-> IF Given(options.evidence)
                              THEN split(Get(options.evidence), Comma)
                              ELSE <<>>,
      supporting_count    |-> IF Given(options.evidence)
                              THEN Len(split(Get(options.evidence), Comma))
                              ELSE 0,
      contradicting_count |-> 0,
      derived_at          |-> now,
      last_evaluated      |-> now,
      supersedes_id       |-> NULL,
      invalidated_at      |-> NULL,
      invalidation_reason |-> NULL,
      importance          |-> parseInt(options.importance),
      tags                |-> IF Given(options.tags)
                              THEN split(Get(options.tags), Comma)
                              ELSE <<>>,
      embedding           |-> NULL ]

AddBelief(options) == Create(AddBeliefRecord(options))

----------------------------------------------------------------------------
(* SpecAdd: beliefs added from the command line at different times, with   *)
(* the default confidence 0.7 and with 0.95, with no evidence option, an   *)
(* empty one, and lists of one and two event ids ("e", "e,f", ",").        *)

AddEvidence ==
    {NULL, Some(<<>>), Some(<<101>>), Some(<<101, Comma, 102>>),
     Some(<<Comma>>)}

AddOptions ==
    [ text       : {<<97>>},
      domain     : {"decision"},
      confidence : {<<48, 46, 55>>, <<48, 46, 57, 53>>},
      importance : {<<53>>},
      evidence   : AddEvidence,
      tags       : {NULL} ]

NextAdd ==
    \/ \E o \in AddOptions : CanCreate(MaxBeliefs) /\ AddBelief(o)
    \/ CanTick /\ Tick

SpecAdd == Init /\ [][NextAdd]_vars

----------------------------------------------------------------------------
(* EventStore (event-store.ts): create, markProcessed, getUnprocessed.     *)
(* An event row is kept with its id, type, session_id, timestamp and       *)
(* processed flag; payload, context and searchable text are left out.      *)

\* EventStore.create: the caller's event is inserted under a fresh id,
\* with processed stored as event.processed ? 1 : 0.
CreateEvent(event) ==
    LET id == Len(events) + 1
    IN  /\ events' = Append(events,
                [ id         |-> id,
                  type       |-> event.type,
                  session_id |-> event.session_id,
                  timestamp  |-> event.timestamp,
                  processed  |-> event.processed ])
        /\ last' = [op |-> "createEvent", arg |-> NULL, ret |-> id]
        /\ UNCHANGED <<beliefs, beliefs_fts, now>>
        /\ UNCHANGED <<sessions, configFile, cachedConfig, calls>>
    /\ UNCHANGED <<sessions, configFile, cachedConfig, calls>>

\* Mutant: the WHERE clause is missing, every event is marked.
MarkTargets_All(ids) == 1..Len(events)

\* WHERE id IN (...)
MarkTargets(ids) == {i \in 1..Len(events) : i \in ids}

\* EventStore.markProcessed: UPDATE events SET processed = 1 for the ids
\* listed; no statement is run for an empty list.
MarkProcessed(ids) ==
    /\ events' =
        IF ids = {} THEN events
        ELSE [i \in 1..Len(events) |->
                IF i \in MarkTargets(ids)
                THEN [events[i] EXCEPT !.processed = TRUE]
                ELSE events[i]]
    /\ last' = [op |-> "markProcessed", arg |-> NULL, ret |-> NULL]
    /\ UNCHANGED <<beliefs, beliefs_fts, now>>
    /\ UNCHANGED <<sessions, configFile, cachedConfig, calls>>

\* EventStore.getUnprocessed: the rows with processed = 0, of the session
\* when one is given, ORDER BY timestamp ASC, LIMIT when options.limit is
\* truthy.
getUnprocessed(sessionId, options) ==
    LET Wanted(e) ==
            /\ ~e.processed
            /\ sessionId # NULL => e.session_id = Get(sessionId)
        rows == SelectSeq(events, Wanted)
        key == [i \in 1..Len(rows) |-> <<0 - rows[i].timestamp, 0>>]
    IN  Limit(SortDescending(rows, key), options.limit)

----------------------------------------------------------------------------
(* SpecLog: the event log on its own.  Events of two sessions are captured *)
(* at different times or inserted as already processed, and marked         *)
(* processed one by one, together, again, and under ids no event has.      *)

CanLog == Len(events) < MaxLogged

LogSessions == {1, 2}

LogEvents ==
    [ type       : {"tool_call"},
      session_id : LogSessions,
      timestamp  : {StartTime - HalfDay},
      processed  : {TRUE, FALSE} ]

NextLog ==
    \/ \E s \in LogSessions : CanLog /\ Capture("tool_call", s)
    \/ \E e \in LogEvents : CanLog /\ CreateEvent(e)
    \/ \E ids \in SUBSET IdSpace(MaxLogged) : MarkProcessed(ids)
    \/ CanTick /\ Tick

SpecLog == Init /\ [][NextLog]_vars

----------------------------------------------------------------------------
(* SessionStore (session-store.ts).  A session row has its id, started_at, *)
(* ended_at, summary and event_count; ids are the rowids.                  *)

\* INSERT INTO sessions (id, started_at, event_count) VALUES (?, now, 0)
SessionRow(id) ==
    [ id          |-> id,
      started_at  |-> now,
      ended_at    |-> NULL,
      summary     |-> NULL,
      event_count |-> 0 ]

rowToSession(row) ==
    [row EXCEPT !.ended_at = NumOrNull(@), !.summary = StrOrNull(@)]

\* SessionStore.create: the session returned is { id, started_at,
\* event_count: 0 }.
CreateSession ==
    LET id == Len(sessions) + 1
    IN  /\ sessions' = Append(sessions, SessionRow(id))
        /\ last' = [op  |-> "createSession",
                    arg |-> NULL,
                    ret |-> [id |-> id, started_at |-> now, event_count |-> 0]]
        /\ UNCHANGED <<beliefs, beliefs_fts, events, now>>
        /\ UNCHANGED <<configFile, cachedConfig, calls>>

\* Mutant: the newest session is taken, ended or not.
OpenSessions_Any == 1..Len(sessions)

\* WHERE ended_at IS NULL
OpenSessions == {i \in 1..Len(sessions) : sessions[i].ended_at = NULL}

\* SessionStore.getCurrent: ... ORDER BY started_at DESC LIMIT 1.  The set
\* of the results the call can give: NULL when no session is open,
\* otherwise an open session no other open session was started after.
getCurrent ==
    IF OpenSessions = {} THEN {NULL}
    ELSE {Some(rowToSession(sessions[i])) :
            i \in {j \in OpenSessions :
                    \A k \in OpenSessions :
                        sessions[k].started_at <= sessions[j].started_at}}

\* SessionStore.getOrCreate: the current session, or a new one.
GetOrCreate ==
    \E current \in getCurrent :
        IF current # NULL
        THEN /\ last' = [op |-> "getOrCreate", arg |-> NULL,
                         ret |-> Get(current)]
             /\ UNCHANGED <<beliefs, beliefs_fts, events, now, sessions>>
             /\ UNCHANGED <<configFile, cachedConfig, calls>>
        ELSE CreateSession

\* Mutant: the WHERE clause without "AND ended_at IS NULL".
EndTargets_NoGuard(id) == {i \in 1..Len(sessions) : i = id}

\* WHERE id = ? AND ended_at IS NULL
EndTargets(id) ==
    {i \in 1..Len(sessions) : i = id /\ sessions[i].ended_at = NULL}

\* SET ended_at = Date.now(), summary = summary || null
EndedRow(row, summary) ==
    [row EXCEPT !.ended_at = Some(now), !.summary = StrOrNull(summary)]

\* SessionStore.end
EndSession(id, summary) ==
    /\ sessions' =
        [i \in 1..Len(sessions) |->
            IF i \in EndTargets(id) THEN EndedRow(sessions[i], summary)
            ELSE sessions[i]]
    /\ last' = [op  |-> "end",
                arg |-> id,
                ret |-> Cardinality(EndTargets(id)) > 0]
    /\ UNCHANGED <<beliefs, beliefs_fts, events, now>>
    /\ UNCHANGED <<configFile, cachedConfig, calls>>

\* SET event_count = event_count + 1
CountedRow(row) == [row EXCEPT !.event_count = @ + 1]

\* SessionStore.incrementEventCount
IncrementEventCount(id) ==
    /\ sessions' =
        [i \in 1..Len(sessions) |->
            IF i = id THEN CountedRow(sessions[i]) ELSE sessions[i]]
    /\ last' = [op |-> "incrementEventCount", arg |-> id, ret |-> NULL]
    /\ UNCHANGED <<beliefs, beliefs_fts, events, now>>
    /\ UNCHANGED <<configFile, cachedConfig, calls>>

----------------------------------------------------------------------------
(* SpecSession: sessions started at different times and ended, once and    *)
(* again, with and without a summary, and under ids no session has.        *)

CanStart == Len(sessions) < MaxSessions

\* The summaries end is given: none, the empty text and "s".
Summaries == {NULL, Some(""), Some("s")}

NextSession ==
    \/ CanStart /\ CreateSession
    \/ GetOrCreate /\ (OpenSessions = {} => CanStart)
    \/ \E id \in IdSpace(MaxSessions), summary \in Summaries :
            EndSession(id, summary)
    \/ CanTick /\ Tick

SpecSession == Init /\ [][NextSession]_vars

----------------------------------------------------------------------------
(* The capture, session-start and session-end commands of the command     *)
(* line (index.ts), each run to completion.                                *)

\* capture: getOrCreate, EventStore.capture under the session's id, then
\* incrementEventCount of that session.
CaptureCommand(type) ==
    \E current \in getCurrent :
        LET id == IF current = NULL THEN Len(sessions) + 1
                  ELSE Get(current).id
            session == IF current = NULL THEN Append(sessions, SessionRow(id))
                       ELSE sessions
        IN  /\ events' = Append(events, CapturedEvent(type, id))
            /\ sessions' =
                [i \in 1..Len(session) |->
                    IF i = id THEN CountedRow(session[i]) ELSE session[i]]
            /\ last' = [op  |-> "captureCommand",
                        arg |-> id,
                        ret |-> Len(events) + 1]
            /\ UNCHANGED <<beliefs, beliefs_fts, now>>
            /\ UNCHANGED <<configFile, cachedConfig, calls>>

\* session-start: a new session is created, whether or not one is open.
SessionStart == CreateSession

\* session-end: the current session is ended with the summary given; with
\* no session open the command reports that and writes nothing.
SessionEnd(summary) ==
    \E current \in getCurrent :
        IF current = NULL
        THEN /\ last' = [op |-> "session-end", arg |-> NULL, ret |-> NULL]
             /\ UNCHANGED <<beliefs, beliefs_fts, events, now, sessions>>
             /\ UNCHANGED <<configFile, cachedConfig, calls>>
        ELSE EndSession(Get(current).id, summary)

----------------------------------------------------------------------------
(* SpecCommands: runs of the three commands in every order, at different   *)
(* times: captures with no session, with one and with several open, and    *)
(* after the session was ended.                                            *)

NextCommands ==
    \/ /\ CanLog
       /\ OpenSessions = {} => CanStart
       /\ CaptureCommand("tool_call")
    \/ CanStart /\ SessionStart
    \/ \E summary \in {NULL, Some("s")} : SessionEnd(summary)
    \/ CanTick /\ Tick

SpecCommands == Init /\ [][NextCommands]_vars

----------------------------------------------------------------------------
(* The configuration file and the loader's cache (config.ts).             *)

\* .memorai/config.json is written from outside the process: by an editor
\* or by another run of the program.
EditConfigFile(content) ==
    /\ configFile' = content
    /\ last' = [op |-> "editConfigFile", arg |-> NULL, ret |-> NULL]
    /\ UNCHANGED <<beliefs, beliefs_fts, events, now>>
    /\ UNCHANGED <<sessions, cachedConfig, calls>>

\* saveConfig: the settings given are merged over loadConfig(), written to
\* the file and kept as cachedConfig.
SaveConfig(config) ==
    LET current == loadConfig
        updated ==
            [k \in DOMAIN current |->
                IF k \in DOMAIN config THEN config[k] ELSE current[k]]
    IN  /\ configFile' = Some(updated)
        /\ cachedConfig' = Some(updated)
        /\ last' = [op |-> "saveConfig", arg |-> NULL, ret |-> NULL]
        /\ UNCHANGED <<beliefs, beliefs_fts, events, now, sessions, calls>>

\* resetConfig: cachedConfig = null
ResetConfig ==
    /\ cachedConfig' = NULL
    /\ last' = [op |-> "resetConfig", arg |-> NULL, ret |-> NULL]
    /\ UNCHANGED <<beliefs, beliefs_fts, events, now>>
    /\ UNCHANGED <<sessions, configFile, calls>>

----------------------------------------------------------------------------
(* SpecConfig: one belief of confidence 0.9, evaluated 10 days ago, swept  *)
(* and adjusted while the configuration file is rewritten: with a floor of *)
(* 0.5, and with a floor of 0.5 and a decay of 0.02 a day.                 *)

ConfigContents ==
    { Some([minConfidenceFloor |-> 500]),
      Some([minConfidenceFloor |-> 500, confidenceDecayPerDay |-> 20]) }

ConfigDeltas == {-5000, 50}

NextConfig ==
    \/ /\ CanCreate(MaxBeliefsDeep)
       /\ Create(NewBelief(<<97>>, "workflow", 900, StartTime - 20 * HalfDay,
                           5, NULL))
    \/ \E content \in ConfigContents : EditConfigFile(content)
    \/ SaveConfig([minConfidenceFloor |-> 400])
    \/ ResetConfig
    \/ \E id \in IdSpace(MaxBeliefsDeep), delta \in ConfigDeltas :
            AdjustConfidence({id}, delta)
    \/ CanDecay /\ ApplyConfidenceDecay

SpecConfig == Init /\ [][NextConfig]_vars

----------------------------------------------------------------------------
(* SpecSweep: the two sweeps over several beliefs, some invalidated, some  *)
(* at the floor, between the calls other callers make.  Every call is one  *)
(* statement, so the runs of SpecSweep are the interleavings of the calls  *)
(* of concurrent callers.  A decay sweep takes 0.6 from a belief evaluated *)
(* 60 days ago.                                                            *)

SweepDeltas == {-200}

NextSweep ==
    \/ /\ CanCreate(MaxBeliefs)
       /\ Create(NewBelief(<<97>>, "workflow", 900, StartTime - 120 * HalfDay,
                           5, NULL))
    \/ \E id \in IdSpace(MaxBeliefs) : Invalidate(id, "obsolete")
    \/ \E ids \in AdjustedIds, delta \in SweepDeltas :
            AdjustConfidence(ids, delta)
    \/ ApplyConfidenceDecay

SpecSweep == Init /\ [][NextSweep]_vars

----------------------------------------------------------------------------
(* Concurrent callers.  Each caller is a process of its own on the same    *)
(* database; the storage engine runs one statement at a time, so a call    *)
(* takes one step for each of its statements and the calls of different    *)
(* callers interleave between them.  calls keeps, for every call begun,    *)
(* its name, the id addressed, its argument, the Date.now() it read, the   *)
(* record it read first, where it stands and what it returned.             *)

Call(op, id, arg, pc) ==
    [ op       |-> op,
      id       |-> id,
      arg      |-> arg,
      time     |-> now,
      existing |-> NULL,
      pc       |-> pc,
      ret      |-> NULL ]

CanCall == Len(calls) < MaxCallers

\* invalidate(id, reason), up to its statement: the arguments of stmt.run
\* are evaluated, Date.now() among them.
BeginInvalidate(id, reason) ==
    /\ calls' = Append(calls, Call("invalidate", id, reason, "run"))
    /\ last' = [op |-> "beginInvalidate", arg |-> id, ret |-> NULL]
    /\ UNCHANGED <<beliefs, beliefs_fts, events, now>>
    /\ UNCHANGED <<sessions, configFile, cachedConfig>>

\* The UPDATE of invalidate, with the time the caller read, and the return
\* of result.changes > 0.
RunInvalidate(c) ==
    LET call == calls[c]
        targets == InvalidateTargets(call.id)
    IN  /\ call.op = "invalidate"
        /\ call.pc = "run"
        /\ WriteRows([i \in 1..Len(beliefs) |->
                        IF i \in targets
                        THEN [beliefs[i] EXCEPT
                                !.invalidated_at = Some(call.time),
                                !.invalidation_reason = Some(call.arg)]
                        ELSE beliefs[i]],
                     targets)
        /\ calls' = [calls EXCEPT ![c].pc = "done",
                                  ![c].ret = Cardinality(targets) > 0]
        /\ last' = [op  |-> "invalidate",
                    arg |-> call.id,
                    ret |-> Cardinality(targets) > 0]
        /\ UNCHANGED <<events, now, sessions, configFile, cachedConfig>>

\* update(id, changes), up to its UPDATE: existing is read, and the call
\* returns when there is no such belief or nothing to write.
BeginUpdate(id, changes) ==
    LET existing == getById(id)
        updates == UpdatableFields \cap DOMAIN changes
        call == [Call("update", id, changes, "write") EXCEPT
                    !.existing = existing]
    IN  /\ calls' =
            Append(calls,
                   IF existing = NULL \/ updates = {}
                   THEN [call EXCEPT !.pc = "done", !.ret = existing]
                   ELSE call)
        /\ last' = [op |-> "beginUpdate", arg |-> id, ret |-> NULL]
        /\ UNCHANGED <<beliefs, beliefs_fts, events, now>>
        /\ UNCHANGED <<sessions, configFile, cachedConfig>>

\* Mutant: the UPDATE writes the record as the call read it, with the
\* changes.
WrittenRow_AsRead(c) ==
    UpdatedRow([beliefs[calls[c].id] EXCEPT
                    !.supporting_count =
                        Get(calls[c].existing).supporting_count,
                    !.contradicting_count =
                        Get(calls[c].existing).contradicting_count],
               calls[c].arg)

\* UPDATE beliefs SET <the supplied columns> WHERE id = ?: the row as it
\* is stored now, with the changes.
WrittenRow(c) == UpdatedRow(beliefs[calls[c].id], calls[c].arg)

\* The UPDATE of update.
WriteUpdate(c) ==
    LET call == calls[c]
    IN  /\ call.op = "update"
        /\ call.pc = "write"
        /\ WriteRows([beliefs EXCEPT ![call.id] = WrittenRow(c)], {call.id})
        /\ calls' = [calls EXCEPT ![c].pc = "read"]
        /\ last' = [op |-> "writeUpdate", arg |-> call.id, ret |-> NULL]
        /\ UNCHANGED <<events, now, sessions, configFile, cachedConfig>>

\* return this.getById(id)
ReturnUpdate(c) ==
    LET call == calls[c]
    IN  /\ call.op = "update"
        /\ call.pc = "read"
        /\ calls' = [calls EXCEPT ![c].pc = "done",
                                  ![c].ret = getById(call.id)]
        /\ last' = [op  |-> "update",
                    arg |-> call.id,
                    ret |-> getById(call.id)]
        /\ UNCHANGED <<beliefs, beliefs_fts, events, now>>
        /\ UNCHANGED <<sessions, configFile, cachedConfig>>

\* incrementSupporting and incrementContradicting of a concurrent caller:
\* the one statement of the call.
RaceIncrement(op, id) ==
    /\ WriteRows([i \in 1..Len(beliefs) |->
                    IF i # id THEN beliefs[i]
                    ELSE IF op = "incrementSupporting"
                         THEN SupportedRow(beliefs[i])
                         ELSE ContradictedRow(beliefs[i])],
                 {id} \cap (1..Len(beliefs)))
    /\ calls' = Append(calls, Call(op, id, NULL, "done"))
    /\ last' = [op |-> op, arg |-> id, ret |-> NULL]
    /\ UNCHANGED <<events, now, sessions, configFile, cachedConfig>>

----------------------------------------------------------------------------
(* SpecRace: invalidate calls of concurrent callers on one belief, begun   *)
(* at different times and for different reasons.                           *)

NextRace ==
    \/ /\ CanCreate(MaxBeliefsDeep)
       /\ Create(NewBelief(<<97>>, "workflow", 900, now, 5, NULL))
    \/ \E id \in 1..Len(beliefs), r \in ReasonInputs :
            CanCall /\ BeginInvalidate(id, r)
    \/ \E c \in 1..Len(calls) : RunInvalidate(c)
    \/ CanTick /\ Tick

SpecRace == Init /\ [][NextRace]_vars

----------------------------------------------------------------------------
(* SpecTally: the increments of concurrent callers on one belief, among    *)
(* update calls that supply no counter, the two sweeps and invalidate.     *)

RaceChanges == { [confidence |-> 300] }

Increments == {"incrementSupporting", "incrementContradicting"}

NextTally ==
    \/ /\ CanCreate(MaxBeliefsDeep)
       /\ calls = <<>>
       /\ Create(NewBelief(<<97>>, "workflow", 900, now - 120 * HalfDay,
                           5, NULL))
    \/ \E id \in 1..Len(beliefs), ch \in RaceChanges :
            CanCall /\ BeginUpdate(id, ch)
    \/ \E c \in 1..Len(calls) : WriteUpdate(c)
    \/ \E c \in 1..Len(calls) : ReturnUpdate(c)
    \/ \E id \in 1..Len(beliefs), op \in Increments :
            CanCall /\ RaceIncrement(op, id)
    \/ beliefs # <<>> /\ AdjustConfidence(1..Len(beliefs), -5000)
    \/ beliefs # <<>> /\ ApplyConfidenceDecay
    \/ beliefs # <<>> /\ Invalidate(Len(beliefs), "obsolete")

SpecTally == Init /\ [][NextTally]_vars

----------------------------------------------------------------------------
(* Properties.                                                             *)

Rows == 1..Len(beliefs)

\* C1: after any sequence of create, update, adjustConfidence and
\* applyConfidenceDecay calls, every stored belief's confidence lies in
\* [minConfidenceFloor, 1.0].
C1_ConfidenceInRange ==
    \A i \in Rows :
        /\ beliefs[i].confidence >= minConfidenceFloor
        /\ beliefs[i].confidence <= MaxConfidence

\* C2: invalidation is terminal: once a belief's invalidated_at is set, no
\* call changes its invalidated_at or its invalidation_reason, and it is
\* never active again.
C2_InvalidationTerminal ==
    [][\A i \in Rows :
          beliefs[i].invalidated_at # NULL =>
            /\ i \in 1..Len(beliefs')
            /\ beliefs'[i].invalidated_at = beliefs[i].invalidated_at
            /\ beliefs'[i].invalidation_reason = beliefs[i].invalidation_reason
            /\ ~IsActive(beliefs'[i])]_vars

\* An invalidated belief that update has since been called on, after the
\* clock has moved.
C2_Witness ==
    /\ last.op = "update"
    /\ Exists(last.arg)
    /\ last.ret # NULL
    /\ beliefs[last.arg].invalidated_at # NULL
    /\ beliefs[last.arg].invalidated_at # Some(now)

\* C3: the first invalidate(id, reason) on an active belief returns true
\* and sets invalidated_at to the time of the call and invalidation_reason
\* to reason; every later invalidate(id, reason2) returns false and
\* leaves the row as it was.
C3_InvalidateOnce ==
    [][last'.op = "invalidate" =>
        \A id \in IdSpace(MaxBeliefsDeep), r \in ReasonInputs :
          (Exists(id) /\ Invalidate(id, r)) =>
            IF beliefs[id].invalidated_at = NULL
            THEN /\ last'.ret = TRUE
                 /\ beliefs'[id].invalidated_at = Some(now)
                 /\ beliefs'[id].invalidation_reason = Some(r)
            ELSE /\ last'.ret = FALSE
                 /\ beliefs'[id] = beliefs[id]]_vars

\* A second invalidate on a belief invalidated at an earlier time: it
\* returned false.
C3_Witness ==
    /\ last.op = "invalidate"
    /\ Exists(last.arg)
    /\ last.ret = FALSE
    /\ beliefs[last.arg].invalidated_at # NULL
    /\ beliefs[last.arg].invalidated_at # Some(now)

\* The belief a read path returned is stored with invalidated_at set.
Surfaced(b) == beliefs[b.id].invalidated_at # NULL

\* C4: with the activeOnly option left at its default, no read path
\* (getActive, getByDomain, count, getStatsPerDomain, searchKeyword,
\* searchSemantic, searchHybrid) returns or counts a belief whose
\* invalidated_at is set, in any reachable state.
C4_ReadsSkipInvalidated ==
    \A o \in DefaultOptions :
        /\ LET got == getActive(o)
           IN  \A i \in 1..Len(got) : ~Surfaced(got[i])
        /\ \A d \in SearchDomains :
                LET got == getByDomain(d, o)
                IN  \A i \in 1..Len(got) : ~Surfaced(got[i])
        /\ count(o) =
                Cardinality({i \in Rows :
                    /\ beliefs[i].invalidated_at = NULL
                    /\ o.domain # NULL => beliefs[i].domain = Get(o.domain)})
        /\ \A d \in DOMAIN getStatsPerDomain :
                getStatsPerDomain[d].count =
                    Cardinality({i \in Rows :
                        /\ beliefs[i].invalidated_at = NULL
                        /\ beliefs[i].domain = d})
        /\ \A q \in SearchQueries :
                /\ \A got \in searchKeyword(q, o) :
                        \A i \in 1..Len(got) : ~Surfaced(got[i])
                /\ LET got == searchSemantic(q, o)
                   IN  ~Threw(got) =>
                            \A i \in 1..Len(got.value) :
                                ~Surfaced(got.value[i].belief)
                /\ \A got \in searchHybrid(q, o) :
                        ~Threw(got) =>
                            \A i \in 1..Len(got.value) :
                                ~Surfaced(got.value[i].belief)

NoOptions ==
    [limit |-> NULL, minConfidence |-> NULL, domain |-> NULL,
     activeOnly |-> NULL]

\* The status command: the belief counts of its line
\* "Beliefs: <active> active / <total> total".
status ==
    LET beliefCount == count(NoOptions)
        activeBeliefCount == count([NoOptions EXCEPT !.activeOnly = Some(TRUE)])
    IN  [active |-> activeBeliefCount, total |-> beliefCount]

\* An invalidated and an active belief both match the query "a" after an
\* invalidate call; the reads return and count the active one alone.
C4_Witness ==
    /\ last.op = "invalidate"
    /\ last.ret = TRUE
    /\ \E i, j \in Rows :
            /\ beliefs[i].invalidated_at # NULL
            /\ beliefs[j].invalidated_at = NULL
            /\ beliefs[i].domain = beliefs[j].domain
            /\ Match(beliefs_fts[i], <<97>>)
            /\ Match(beliefs_fts[j], <<97>>)
    /\ count(NoOptions) = 1
    /\ Len(getActive(NoOptions)) = 1
    /\ \E got \in searchHybrid(<<97>>, NoOptions) :
            /\ ~Threw(got)
            /\ Len(got.value) = 1
            /\ got.value[1].matchType = "hybrid"

\* The limit the caller asked for: options.limit, or the default when the
\* caller leaves it out.
RequestedLimit(o) == IF o.limit = NULL THEN DefaultLimit ELSE Get(o.limit)

\* C6: for every store state, query and requested limit (limit 0 and limit
\* unspecified included), searchHybrid returns no two results with the same
\* belief id and returns at most the requested limit of results.
C6_HybridDistinctWithinLimit ==
    \A q \in SearchQueries, o \in SearchOptions :
        \A got \in searchHybrid(q, o) :
            ~Threw(got) =>
                /\ \A i, j \in 1..Len(got.value) :
                        i # j => got.value[i].belief.id # got.value[j].belief.id
                /\ Len(got.value) <= RequestedLimit(o)

\* C5: a belief becomes invalidated only through an invalidate call:
\* neither contradicting_count reaching the threshold nor confidence
\* reaching the floor sets invalidated_at.
C5_OnlyInvalidateInvalidates ==
    [][\A i \in Rows :
          (beliefs[i].invalidated_at = NULL
             /\ beliefs'[i].invalidated_at # NULL)
            => last'.op = "invalidate"]_vars

\* An active belief whose contradicting_count is at the threshold and
\* whose confidence is at the floor.
C5_Witness ==
    \E i \in Rows :
        /\ beliefs[i].contradicting_count >= contradictionThreshold
        /\ beliefs[i].confidence = minConfidenceFloor
        /\ beliefs[i].invalidated_at = NULL

\* C7: adjustConfidence(ids, delta) sets the confidence of every listed
\* belief to max(floor, min(1.0, confidence + delta)), exactly the floor
\* for a large negative delta, leaves every other field and every unlisted
\* belief unchanged, and changes nothing when ids is empty.
C7_AdjustConfidence ==
    [][last'.op = "adjustConfidence" =>
        \A ids \in AdjustedIds, delta \in Deltas :
          AdjustConfidence(ids, delta) =>
            /\ Len(beliefs') = Len(beliefs)
            /\ \A i \in Rows :
                  LET sum == beliefs[i].confidence + delta
                      clamped ==
                        IF sum < minConfidenceFloor THEN minConfidenceFloor
                        ELSE IF sum > MaxConfidence THEN MaxConfidence
                        ELSE sum
                  IN  IF i \in ids
                      THEN /\ beliefs'[i] =
                                [beliefs[i] EXCEPT !.confidence = clamped]
                           /\ delta <= -MaxConfidence =>
                                beliefs'[i].confidence = minConfidenceFloor
                      ELSE beliefs'[i] = beliefs[i]
            /\ ids = {} => beliefs' = beliefs]_vars

\* adjustConfidence has brought the first of two beliefs down to the
\* floor and left the second, above the floor, alone.
C7_Witness ==
    /\ last.op = "adjustConfidence"
    /\ Len(beliefs) = 2
    /\ beliefs[1].confidence = minConfidenceFloor
    /\ beliefs[2].confidence > minConfidenceFloor

\* C8: applyConfidenceDecay sets the confidence of every active belief
\* above the floor to max(floor, confidence - decayPerDay * elapsedDays),
\* elapsedDays being the exact quotient (now - last_evaluated) / one day,
\* and returns the number of such beliefs.  (Both sides are multiplied by
\* the length of a day.)
C8_DecayExactQuotient ==
    [][ApplyConfidenceDecay =>
          /\ \A i \in Rows :
                (beliefs[i].invalidated_at = NULL
                   /\ beliefs[i].confidence > minConfidenceFloor) =>
                  beliefs'[i].confidence * dayInMs =
                    Max(minConfidenceFloor * dayInMs,
                        beliefs[i].confidence * dayInMs
                          - confidenceDecayPerDay
                              * (now - beliefs[i].last_evaluated))
          /\ last'.ret =
                Cardinality({i \in Rows :
                    /\ beliefs[i].invalidated_at = NULL
                    /\ beliefs[i].confidence > minConfidenceFloor})]_vars

\* C9: a decay sweep only lowers confidence: every belief's confidence
\* after applyConfidenceDecay is at most its confidence before.
C9_DecayOnlyLowers ==
    [][ApplyConfidenceDecay =>
          \A i \in Rows :
              beliefs'[i].confidence <= beliefs[i].confidence]_vars

DomainActive(domain) ==
    \E e \in 1..Len(events) : domain \in DomainsOfEvent(events[e].type)

\* C11: a belief's confidence decays only if its domain has seen activity:
\* while no event mapped to the belief's domain (file_change ->
\* code_pattern / project_structure, tool_call -> workflow / code_pattern,
\* user_message -> user_preference, error -> code_pattern) has been
\* captured, a decay sweep leaves that belief's confidence unchanged.
C11_DecayOnlyInActiveDomains ==
    [][ApplyConfidenceDecay =>
          \A i \in Rows :
              ~DomainActive(beliefs[i].domain) =>
                  beliefs'[i].confidence = beliefs[i].confidence]_vars

\* The table after a call that adds 1 to the given field of the belief id
\* and changes nothing else.
OnlyCounted(id, field) ==
    /\ Len(beliefs') = Len(beliefs)
    /\ \A i \in Rows :
          \A f \in DOMAIN beliefs[i] :
              beliefs'[i][f] =
                  IF i = id /\ f = field
                  THEN beliefs[i][f] + 1
                  ELSE beliefs[i][f]

\* C12: incrementSupporting(id) / incrementContradicting(id) on an existing
\* belief adds exactly 1 to supporting_count / contradicting_count and
\* leaves every other field of that belief and every other belief
\* unchanged.
C12_IncrementsOnlyCount ==
    [][\A id \in Rows :
          /\ (last'.op = "incrementSupporting" /\ IncrementSupporting(id))
                => OnlyCounted(id, "supporting_count")
          /\ (last'.op = "incrementContradicting"
                /\ IncrementContradicting(id))
                => OnlyCounted(id, "contradicting_count")]_vars

\* Both counters of the first of two beliefs have been incremented, the
\* second belief's are as created.
C12_Witness ==
    /\ last.op = "incrementContradicting"
    /\ last.arg = 1
    /\ Len(beliefs) = 2
    /\ beliefs[1].supporting_count = 1
    /\ beliefs[1].contradicting_count = 1
    /\ beliefs[1].confidence = 700
    /\ beliefs[2].supporting_count = 0
    /\ beliefs[2].contradicting_count = 0

\* The value a column holds once update has written the value v to it.
Written(f, v) == IF f = "embedding" THEN Some(v) ELSE v

\* The table after update(id, ch) has set the fields named in fields to
\* the values ch supplies and changed nothing else, and the record the
\* call returned is the stored one.
OnlyUpdated(id, ch, fields) ==
    /\ Len(beliefs') = Len(beliefs)
    /\ \A i \in Rows :
          \A f \in DOMAIN beliefs[i] :
              beliefs'[i][f] =
                  IF i = id /\ f \in fields
                  THEN Written(f, ch[f])
                  ELSE beliefs[i][f]
    /\ last'.ret = Some(rowToBelief(beliefs'[id]))
    /\ fields = {} =>
          /\ beliefs' = beliefs
          /\ beliefs_fts' = beliefs_fts
          /\ last'.ret = Some(rowToBelief(beliefs[id]))

\* C13 as stated: update(id, changes) on an existing belief sets exactly
\* the supplied fields to the supplied values and leaves every field not
\* supplied and every other belief unchanged; the record it returns equals
\* the stored record; when no field is supplied it returns the unmodified
\* record and performs no write.
C13_UpdateSetsSupplied ==
    [][(last'.op = "update" /\ Exists(last'.arg)) =>
        \A ch \in UpdateChanges :
            Update(last'.arg, ch) =>
                OnlyUpdated(last'.arg, ch, DOMAIN ch)]_vars

\* The fields update writes.
C13_Fields ==
    {"text", "confidence", "evidence_ids", "supporting_count",
     "contradicting_count", "last_evaluated", "importance", "tags",
     "embedding"}

\* C13 as amended: update(id, changes) on an existing belief sets exactly
\* the supplied fields among text, confidence, evidence_ids,
\* supporting_count, contradicting_count, last_evaluated, importance, tags
\* and embedding to the supplied values, and leaves every other field,
\* supplied or not, and every other belief unchanged; the record it
\* returns equals the stored record; when none of these fields is supplied
\* it returns the unmodified record and performs no write.
C13_UpdateSetsUpdatable ==
    [][(last'.op = "update" /\ Exists(last'.arg)) =>
        \A ch \in UpdateChanges :
            Update(last'.arg, ch) =>
                OnlyUpdated(last'.arg, ch, DOMAIN ch \cap C13_Fields)]_vars

\* update has given the first of two beliefs a new text and left its
\* embedding and the second belief as created.
C13_Witness ==
    /\ last.op = "update"
    /\ last.arg = 1
    /\ Len(beliefs) = 2
    /\ beliefs[1].text = <<98>>
    /\ beliefs[1].embedding = Some(generateEmbedding(<<97>>, DefaultDims))
    /\ beliefs[1].domain = "code_pattern"
    /\ last.ret = Some(rowToBelief(beliefs[1]))
    /\ beliefs[2].text = <<97>>

\* C16: create/read round trip: for every input belief b, getById of the
\* id create(b) assigned returns a record whose every field equals the
\* record create(b) returned, with embedding equal to the caller's
\* embedding when one was supplied and to generateEmbedding(b.text)
\* otherwise.
C16_CreateReadRoundTrip ==
    [][last'.op = "create" =>
        \A b \in UpdateBeliefs, id \in {FreshId} :
            Create(b) =>
                /\ last'.ret.id = id
                /\ (getById(id))' = Some(last'.ret)
                /\ last'.ret.embedding =
                        IF b.embedding # NULL THEN b.embedding
                        ELSE Some(generateEmbedding(b.text, DefaultDims))]_vars

\* The call left the stored state as it was.
StoreUnchanged ==
    /\ beliefs' = beliefs
    /\ beliefs_fts' = beliefs_fts
    /\ events' = events

\* C14: operations addressed to an id that matches no belief signal
\* absence without raising an error and without changing any stored
\* state: getById and update return null, invalidate returns false, and
\* incrementSupporting, incrementContradicting and adjustConfidence leave
\* the store unchanged.
C14_UnknownIdIsAbsent ==
    [][\A id \in IdSpace(MaxBeliefsDeep) :
          ~Exists(id) =>
            /\ getById(id) = NULL
            /\ \A ch \in LifeChanges :
                  (last'.op = "update" /\ Update(id, ch)) =>
                      last'.ret = NULL /\ StoreUnchanged
            /\ \A r \in ReasonInputs :
                  (last'.op = "invalidate" /\ Invalidate(id, r)) =>
                      last'.ret = FALSE /\ StoreUnchanged
            /\ (last'.op = "incrementSupporting" /\ IncrementSupporting(id))
                  => StoreUnchanged
            /\ (last'.op = "incrementContradicting"
                  /\ IncrementContradicting(id)) => StoreUnchanged
            /\ (last'.op = "adjustConfidence"
                  /\ AdjustConfidence({id}, -5000)) => StoreUnchanged]_vars

\* invalidate was called with an id no belief has, while an active belief
\* is stored: it returned false and the belief is still active.
C14_Witness ==
    /\ last.op = "invalidate"
    /\ ~Exists(last.arg)
    /\ last.ret = FALSE
    /\ Len(beliefs) = 1
    /\ beliefs[1].invalidated_at = NULL
    /\ getById(last.arg) = NULL

StoredIds == {beliefs[i].id : i \in Rows}

\* C15: create assigns each new belief an identifier different from that
\* of every belief already stored, adds exactly one belief to the store
\* and leaves all existing beliefs unchanged; no operation removes a
\* belief, so the set of stored ids only grows.
C15_CreateAddsOneFreshBelief ==
    [][/\ StoredIds \subseteq StoredIds'
       /\ Len(beliefs') >= Len(beliefs)
       /\ last'.op = "create" =>
            /\ Len(beliefs') = Len(beliefs) + 1
            /\ \A i \in Rows : beliefs'[i] = beliefs[i]
            /\ beliefs'[Len(beliefs) + 1].id \notin StoredIds
            /\ beliefs'[Len(beliefs) + 1].id = last'.ret.id
            /\ Cardinality(StoredIds') = Cardinality(StoredIds) + 1]_vars

\* create has added a second belief beside one that was invalidated
\* before: both are stored, under different ids.
C15_Witness ==
    /\ last.op = "create"
    /\ Len(beliefs) = 2
    /\ beliefs[1].invalidated_at # NULL
    /\ beliefs[2].invalidated_at = NULL
    /\ beliefs[1].id # beliefs[2].id
    /\ last.ret.id = beliefs[2].id

\* The filters getActive is called with.
ActiveOptions ==
    [ limit         : SearchLimits,
      minConfidence : {NULL, Some(500)},
      domain        : {NULL, Some("workflow")},
      activeOnly    : {NULL} ]

\* The stored beliefs that are active and pass the filters supplied.
ActiveMatching(o) ==
    {i \in Rows :
        /\ beliefs[i].invalidated_at = NULL
        /\ o.minConfidence # NULL =>
                beliefs[i].confidence >= Get(o.minConfidence)
        /\ o.domain # NULL => beliefs[i].domain = Get(o.domain)}

\* got lists exactly the beliefs whose rows are ids, each once.
ListsExactly(got, ids) ==
    /\ Len(got) = Cardinality(ids)
    /\ {got[k].id : k \in 1..Len(got)} = {beliefs[i].id : i \in ids}

\* C17: getActive(filters) returns exactly the active beliefs that satisfy
\* the supplied minConfidence and domain filters, ordered by importance
\* descending then confidence descending, and for every supplied limit n,
\* 0 included, the result is the first n elements of the result obtained
\* without a limit.
C17_GetActiveFilteredOrderedTruncated ==
    \A o \in ActiveOptions :
        LET all == getActive([o EXCEPT !.limit = NULL])
            got == getActive(o)
        IN  /\ ListsExactly(all, ActiveMatching(o))
            /\ \A k \in 1..(Len(all) - 1) :
                    \/ all[k].importance > all[k + 1].importance
                    \/ /\ all[k].importance = all[k + 1].importance
                       /\ all[k].confidence >= all[k + 1].confidence
            /\ o.limit # NULL =>
                    got = SubSeq(all, 1, Min(Get(o.limit), Len(all)))

\* The options getByDomain is called with.
DomainOptions ==
    [ limit         : {NULL},
      minConfidence : {NULL},
      domain        : {NULL},
      activeOnly    : {NULL, Some(TRUE), Some(FALSE)} ]

\* C18: getByDomain(domain) returns exactly the beliefs of that domain that
\* are active, or all beliefs of that domain when activeOnly is explicitly
\* false, ordered by confidence descending then importance descending.
C18_GetByDomainFilteredOrdered ==
    \A d \in BeliefDomain, o \in DomainOptions :
        LET got == getByDomain(d, o)
            wanted == {i \in Rows :
                        /\ beliefs[i].domain = d
                        /\ \/ o.activeOnly = Some(FALSE)
                           \/ beliefs[i].invalidated_at = NULL}
        IN  /\ ListsExactly(got, wanted)
            /\ \A k \in 1..(Len(got) - 1) :
                    \/ got[k].confidence > got[k + 1].confidence
                    \/ /\ got[k].confidence = got[k + 1].confidence
                       /\ got[k].importance >= got[k + 1].importance

\* One domain holds an invalidated belief and two active ones that
\* confidence ranks one way and importance the other: the default listing
\* leaves the invalidated one out and puts the more confident one first.
C18_Witness ==
    \E d \in OrderDomains :
        LET got == getByDomain(d, NoOptions)
        IN  /\ Len(got) = 2
            /\ Len(getByDomain(d, [NoOptions EXCEPT !.activeOnly = Some(FALSE)])) = 3
            /\ got[1].confidence > got[2].confidence
            /\ got[1].importance < got[2].importance

\* The domain filters count and getActive are given: none, the empty
\* string, and each domain.
DomainFilters == {NULL, Some("")} \cup {Some(d) : d \in BeliefDomain}

\* C19: in every reachable state and for every domain filter, count with
\* activeOnly left to its default equals the number of records getActive
\* returns for the same domain filter without a limit, and
\* count({activeOnly: false}) equals the number of all stored beliefs.
C19_CountAgreesWithGetActive ==
    /\ \A d \in DomainFilters :
            count([NoOptions EXCEPT !.domain = d]) =
                Len(getActive([NoOptions EXCEPT !.domain = d]))
    /\ count([NoOptions EXCEPT !.activeOnly = Some(FALSE)]) = Len(beliefs)

\* Both domains hold a belief and one belief is invalidated: the counts
\* with and without a domain filter, and the count of all stored beliefs,
\* are three different numbers.
C19_Witness ==
    /\ last.op = "invalidate"
    /\ last.ret = TRUE
    /\ \E d \in OrderDomains :
            /\ count([NoOptions EXCEPT !.domain = Some(d)]) = 1
            /\ count(NoOptions) = 2
            /\ count([NoOptions EXCEPT !.activeOnly = Some(FALSE)]) = 3

\* The active beliefs of a domain.
ActiveOf(d) ==
    {i \in Rows : beliefs[i].domain = d /\ beliefs[i].invalidated_at = NULL}

\* The sum of the counts getStatsPerDomain reports for the domains ds.
RECURSIVE SumCounts(_)
SumCounts(ds) ==
    IF ds = {} THEN 0
    ELSE LET d == CHOOSE x \in ds : TRUE
         IN  getStatsPerDomain[d].count + SumCounts(ds \ {d})

\* The sum of the confidences of the beliefs ids; the beliefs of SpecOrder
\* are at most MaxOrdered + 1.
SumOf(ids) ==
    LET conf(i) == IF i \in ids THEN beliefs[i].confidence ELSE 0
    IN  conf(1) + conf(2) + conf(3) + conf(4)

\* C20: getStatsPerDomain reports, for each domain that has an active
\* belief, the number of active beliefs of that domain and the mean of
\* their confidences (here rounded down to a thousandth); invalidated
\* beliefs add to neither, domains without an active belief are absent, and
\* the counts sum to count().
C20_StatsPerDomain ==
    LET stats == getStatsPerDomain
    IN  /\ DOMAIN stats = {d \in BeliefDomain : ActiveOf(d) # {}}
        /\ \A d \in DOMAIN stats :
                /\ stats[d].count = Cardinality(ActiveOf(d))
                /\ stats[d].avgConfidence * stats[d].count <= SumOf(ActiveOf(d))
                /\ SumOf(ActiveOf(d)) < (stats[d].avgConfidence + 1) * stats[d].count
        /\ SumCounts(DOMAIN stats) = count(NoOptions)

\* One domain holds two active beliefs of different confidence and the
\* other domain holds an invalidated belief alone: the statistics give the
\* first domain a count of 2 and the mean 650 and leave the other out.
C20_Witness ==
    /\ last.op = "invalidate"
    /\ last.ret = TRUE
    /\ LET stats == getStatsPerDomain
       IN  \E d \in OrderDomains :
                /\ DOMAIN stats = {d}
                /\ stats[d].count = 2
                /\ stats[d].avgConfidence = 650
                /\ Len(beliefs) = 3

IsUpper(c) == c >= 65 /\ c <= 90

\* The texts t and u are equal up to the case of their letters.
DifferOnlyInCase(t, u) ==
    /\ Len(t) = Len(u)
    /\ \A i \in 1..Len(t) :
            \/ t[i] = u[i]
            \/ IsUpper(t[i]) /\ u[i] = t[i] + 32
            \/ IsUpper(u[i]) /\ t[i] = u[i] + 32

\* C26: generateEmbedding(text, dims) is a pure deterministic function of
\* the lower-cased text: its result has exactly dims entries, a second call
\* with the same text gives the identical vector, and so does a call with
\* a text that differs only in letter case.
C26_EmbeddingOfLowerCasedText ==
    last.op = "generateEmbedding" =>
        LET text == last.arg.text
            dims == last.arg.dims
        IN  /\ last.ret.len = dims
            /\ DOMAIN last.ret.w \subseteq 0..(dims - 1)
            /\ generateEmbedding(text, dims) = last.ret
            /\ \A u \in EmbedTexts :
                    DifferOnlyInCase(text, u) =>
                        generateEmbedding(u, dims) = last.ret

\* generateEmbedding was called with "Ab": the vector is that of "ab" and
\* "aB" and differs from that of "bb".
C26_Witness ==
    /\ last.op = "generateEmbedding"
    /\ last.arg.text = <<65, 98>>
    /\ last.ret = generateEmbedding(<<97, 98>>, last.arg.dims)
    /\ last.ret = generateEmbedding(<<97, 66>>, last.arg.dims)
    /\ last.ret # generateEmbedding(<<98, 98>>, last.arg.dims)

\* The Euclidean norm of a vector generateEmbedding returned: every entry
\* was divided by the magnitude when the magnitude was above 0, which
\* leaves norm 1, and the vector was left all zeros otherwise.
EmbeddingNorm(v) == IF Sqrt(Norm2(v)) > 0 THEN 1 ELSE 0

ZeroNorm(v) == \A k \in DOMAIN v.w : v.w[k] = 0

\* C28: cosineSimilarity(a, b) fails with an error whenever a and b differ
\* in length, never returning a number then, and returns 0 whenever the
\* lengths are equal and at least one of the vectors has zero norm.
C28_SimilarityMismatchAndZero ==
    last.op = "cosineSimilarity" =>
        LET a == last.arg.a
            b == last.arg.b
        IN  /\ a.len # b.len =>
                    Threw(last.ret) /\ "value" \notin DOMAIN last.ret
            /\ a.len = b.len /\ (ZeroNorm(a) \/ ZeroNorm(b)) =>
                    last.ret = Return(0)

\* cosineSimilarity was called with a zero vector of one entry and a
\* non-zero vector of two and threw; on the zero vector of two entries
\* and the same vector it gives 0.
C28_Witness ==
    /\ last.op = "cosineSimilarity"
    /\ last.arg.a.len = 1
    /\ ZeroNorm(last.arg.a)
    /\ last.arg.b.len = 2
    /\ ~ZeroNorm(last.arg.b)
    /\ Threw(last.ret)
    /\ cosineSimilarity([last.arg.a EXCEPT !.len = 2], last.arg.b) = Return(0)
    /\ cosineSimilarity(last.arg.b, last.arg.b) = Return(1000)

\* C25: in every reachable state, every stored belief that has a
\* fingerprint has one of exactly the configured dimensionality (384
\* entries), whatever embeddings callers passed to create or update.
C25_StoredFingerprintDims ==
    \A i \in Rows :
        beliefs[i].embedding # NULL =>
            Get(beliefs[i].embedding).len = DefaultDims

\* While an active belief holds a fingerprint of another length, every
\* semantic search throws: its cosineSimilarity call meets the two lengths.
MismatchedFingerprintBreaksSearch ==
    (\E i \in Rows :
        /\ beliefs[i].invalidated_at = NULL
        /\ beliefs[i].embedding # NULL
        /\ Get(beliefs[i].embedding).len # DefaultDims)
    => \A q \in SearchQueries : Threw(searchSemantic(q, NoOptions))

\* The stored beliefs semantic search scores: active, with a fingerprint,
\* passing the filters supplied.
SemanticCandidates(o) ==
    {i \in ActiveMatching(o) : beliefs[i].embedding # NULL}

\* The cosine similarity of the query's fingerprint and the belief's.
SemanticScore(q, i) ==
    cosineSimilarity(generateEmbedding(q, DefaultDims),
                     Get(beliefs[i].embedding)).value

\* C21: searchSemantic returns only active beliefs that have a fingerprint
\* and satisfy the minConfidence/domain filters, each scored by cosine
\* similarity to the query's fingerprint, in non-increasing score order,
\* truncated to the requested limit (10 when none is given); no belief
\* outside the result has a strictly higher score than one inside it.
C21_SemanticScoredAndTruncated ==
    \A q \in SearchQueries, o \in SearchOptions :
        LET r == searchSemantic(q, o)
        IN  ~Threw(r) =>
                LET got == r.value
                    in == {got[k].belief.id : k \in 1..Len(got)}
                IN  /\ in \subseteq SemanticCandidates(o)
                    /\ \A k \in 1..Len(got) :
                            /\ got[k].belief = rowToBelief(beliefs[got[k].belief.id])
                            /\ got[k].score = SemanticScore(q, got[k].belief.id)
                    /\ \A k \in 1..(Len(got) - 1) :
                            got[k].score >= got[k + 1].score
                    /\ Cardinality(in) = Len(got)
                    /\ Len(got) = Min(RequestedLimit(o),
                                      Cardinality(SemanticCandidates(o)))
                    /\ \A i \in SemanticCandidates(o) \ in :
                            \A k \in 1..Len(got) :
                                SemanticScore(q, i) <= got[k].score

\* The options of the two inner searches of searchHybrid.
Doubled(o) == [o EXCEPT !.limit = Some(LimitOrDefault(o) * 2)]

\* The 0-based positions of the belief id in a keyword list.
KeywordRanks(keywordResults, id) ==
    {i \in 0..(Len(keywordResults) - 1) : keywordResults[i + 1].id = id}

\* The score of a belief in a semantic list.
SemanticScores(semanticResults, id) ==
    {semanticResults[k].score :
        k \in {j \in 1..Len(semanticResults) :
                semanticResults[j].belief.id = id}}

\* The options hybrid search is ranked under: every limit, with the
\* invalidated beliefs left out and let in.
HybridOptions ==
    [ limit         : SearchLimits,
      minConfidence : {NULL},
      domain        : {NULL},
      activeOnly    : {NULL, Some(FALSE)} ]

\* C22: in searchHybrid, with the keyword and the semantic list each
\* fetched with limit 2 x requested-limit, a belief in both lists is tagged
\* 'hybrid' with score (semanticScore + (1 - i x 0.1)) / 2, i its 0-based
\* keyword rank; a belief only in the semantic list is tagged 'semantic'
\* with its semantic score; a belief only in the keyword list is tagged
\* 'keyword' with score exactly 0.5.
C22_HybridTagsAndScores ==
    \A q \in SearchQueries, o \in HybridOptions :
        LET semantic == searchSemantic(q, Doubled(o))
        IN  ~Threw(semantic) =>
                \A keywordResults \in searchKeyword(q, Doubled(o)) :
                    LET got == Combine(keywordResults, semantic.value, o)
                    IN  \A k \in 1..Len(got) :
                            LET id == got[k].belief.id
                                ranks == KeywordRanks(keywordResults, id)
                                scores == SemanticScores(semantic.value, id)
                            IN  /\ ranks # {} \/ scores # {}
                                /\ (ranks # {} /\ scores # {}) =>
                                    /\ got[k].matchType = "hybrid"
                                    /\ \E i \in ranks, s \in scores :
                                            2 * got[k].score =
                                                s + (1000 - i * 100)
                                /\ (ranks = {} /\ scores # {}) =>
                                    /\ got[k].matchType = "semantic"
                                    /\ got[k].score \in scores
                                /\ (ranks # {} /\ scores = {}) =>
                                    /\ got[k].matchType = "keyword"
                                    /\ got[k].score = 500

\* The tags of the results of a search.
MatchTypes(got) == {got[k].matchType : k \in 1..Len(got)}

\* With invalidated beliefs let in, a search for "a" returns one belief
\* tagged 'hybrid' and one tagged 'keyword' with score 0.5, and a search
\* for "b" returns a belief tagged 'semantic'.
C22_Witness ==
    /\ \E r \in searchHybrid(<<97>>, [NoOptions EXCEPT !.activeOnly = Some(FALSE)]) :
            /\ ~Threw(r)
            /\ MatchTypes(r.value) = {"hybrid", "keyword"}
            /\ \E k \in 1..Len(r.value) :
                    r.value[k].matchType = "keyword" /\ r.value[k].score = 500
    /\ \E r \in searchHybrid(<<98>>, NoOptions) :
            /\ ~Threw(r)
            /\ "semantic" \in MatchTypes(r.value)

\* Every candidate a hybrid search merges: the list it returns when the
\* limit is large enough to cut nothing.
Merged(keywordResults, semanticResults) ==
    Combine(keywordResults, semanticResults,
            [NoOptions EXCEPT !.limit =
                Some(Len(keywordResults) + Len(semanticResults) + 1)])

TagRank(matchType) ==
    IF matchType = "hybrid" THEN 3
    ELSE IF matchType = "semantic" THEN 2
    ELSE 1

\* C24: in every hybrid search result list, every result tagged 'hybrid'
\* is ranked above every result tagged 'semantic', and every result tagged
\* 'semantic' is ranked above every result tagged 'keyword'.
C24_HybridAboveSemanticAboveKeyword ==
    \A q \in SearchQueries, o \in SearchOptions :
        \A r \in searchHybrid(q, o) :
            ~Threw(r) =>
                \A j, k \in 1..Len(r.value) :
                    j < k =>
                        TagRank(r.value[j].matchType)
                            >= TagRank(r.value[k].matchType)

\* C29: the status command reports two belief counts, active and total:
\* 'active' is the number of beliefs with no invalidated_at and 'total' is
\* the number of all stored beliefs, invalidated ones included; after any
\* belief has been invalidated, total exceeds active.
C29_StatusActiveAndTotal ==
    /\ status.active = Cardinality({i \in Rows : beliefs[i].invalidated_at = NULL})
    /\ status.total = Len(beliefs)
    /\ (\E i \in Rows : beliefs[i].invalidated_at # NULL) =>
            status.total > status.active

\* The queries the index is searched with: the text a belief is created
\* with, the text update gives it, and the tag update gives it.
IndexQueries == {<<97>>, <<98>>, <<120>>}

\* Every stored belief, invalidated or not.
AnyBelief == [NoOptions EXCEPT !.activeOnly = Some(FALSE)]

\* C30: after any sequence of create, update, invalidate, increment,
\* adjustConfidence and decay operations, the full-text index holds exactly
\* one entry per stored belief row, whose (text, tags) equals the row's
\* current (text, tags), so keyword search matches a belief's current text
\* and never a text it no longer has.
C30_IndexFollowsRows ==
    /\ DOMAIN beliefs_fts = DOMAIN beliefs
    /\ \A i \in Rows :
            /\ beliefs_fts[i].text = beliefs[i].text
            /\ beliefs_fts[i].tags = beliefs[i].tags
    /\ \A q \in IndexQueries :
            \A got \in searchKeyword(q, AnyBelief) :
                {got[k].id : k \in 1..Len(got)} =
                    {beliefs[i].id :
                        i \in {j \in Rows :
                                Tokens(q) \subseteq
                                    Tokens(beliefs[j].text)
                                        \cup TagTokens(beliefs[j].tags)}}

\* A belief created with the text "a" has been given the text "b", and its
\* confidence has been lowered since: a search for "b" finds it and a
\* search for "a" finds nothing.
C30_Witness ==
    /\ Len(beliefs) >= 1
    /\ beliefs[1].text = <<98>>
    /\ beliefs[1].confidence = minConfidenceFloor
    /\ last.op \in {"adjustConfidence", "applyConfidenceDecay"}
    /\ \A got \in searchKeyword(<<98>>, AnyBelief) :
            Len(got) = 1 /\ got[1].id = beliefs[1].id
    /\ \A got \in searchKeyword(<<97>>, AnyBelief) : got = <<>>

\* C34: applyConfidenceDecay changes no field other than confidence (it
\* leaves last_evaluated as it is) and leaves invalidated beliefs and
\* beliefs at or below the floor untouched; so every sweep, also one that
\* follows another at the same instant, subtracts the full decayPerDay *
\* elapsedDays from each belief it targets, down to the floor.  (Both sides
\* are multiplied by the length of a day.)
C34_DecayFrameAndRepeat ==
    [][ApplyConfidenceDecay =>
          /\ Len(beliefs') = Len(beliefs)
          /\ \A i \in Rows :
                LET targeted ==
                        /\ beliefs[i].invalidated_at = NULL
                        /\ beliefs[i].confidence > minConfidenceFloor
                IN  /\ beliefs'[i] =
                          [beliefs[i] EXCEPT
                              !.confidence = beliefs'[i].confidence]
                    /\ ~targeted => beliefs'[i] = beliefs[i]
                    /\ targeted =>
                          beliefs'[i].confidence * dayInMs =
                            Max(minConfidenceFloor * dayInMs,
                                beliefs[i].confidence * dayInMs
                                  - confidenceDecayPerDay
                                      * (now - beliefs[i].last_evaluated))]_vars

\* The same with elapsedDays as the sweep computes it, in whole days: the
\* frame of a sweep and the full reduction at every repetition.
DecayRepeatsInWholeDays ==
    [][ApplyConfidenceDecay =>
          /\ Len(beliefs') = Len(beliefs)
          /\ \A i \in Rows :
                LET targeted ==
                        /\ beliefs[i].invalidated_at = NULL
                        /\ beliefs[i].confidence > minConfidenceFloor
                    wholeDays ==
                        SqlIntDiv(now - beliefs[i].last_evaluated, dayInMs)
                IN  /\ beliefs'[i] =
                          [beliefs[i] EXCEPT
                              !.confidence = beliefs'[i].confidence]
                    /\ ~targeted => beliefs'[i] = beliefs[i]
                    /\ targeted =>
                          beliefs'[i].confidence =
                            Max(minConfidenceFloor,
                                beliefs[i].confidence
                                  - confidenceDecayPerDay * wholeDays)]_vars

\* The active beliefs passing the filters whose stored fingerprint has
\* another length than the configured one.
Mismatched(o) ==
    {i \in ActiveMatching(o) :
        /\ beliefs[i].embedding # NULL
        /\ Get(beliefs[i].embedding).len # DefaultDims}

\* The rows a keyword search over the filters matches.
KeywordMatching(q, o) ==
    {i \in Rows :
        /\ Match(beliefs_fts[i], q)
        /\ o.activeOnly # Some(FALSE) => beliefs[i].invalidated_at = NULL
        /\ o.minConfidence # NULL =>
                beliefs[i].confidence >= Get(o.minConfidence)
        /\ o.domain # NULL => beliefs[i].domain = Get(o.domain)}

EvidenceSupplied(option) ==
    IF option = NULL \/ Get(option) = <<>> THEN 0
    ELSE Cardinality({k \in 1..Len(Get(option)) : Get(option)[k] = Comma}) + 1

UnprocessedCalls ==
    [ sessionId : {NULL} \cup {Some(s) : s \in LogSessions},
      limit     : {NULL, Some(0), Some(1)} ]

\* C38: the event log is append-only.  No EventStore operation deletes an
\* event or changes a field of a stored event, except that
\* markProcessed(ids) sets processed to true for exactly the listed events;
\* processed never goes back to false; and getUnprocessed never returns an
\* event that has been marked processed.
C38_EventLogAppendOnly ==
    /\ [][/\ Len(events') >= Len(events)
          /\ \A i \in 1..Len(events) :
                /\ events'[i] =
                      [events[i] EXCEPT !.processed = events'[i].processed]
                /\ events[i].processed => events'[i].processed
          /\ \A ids \in SUBSET IdSpace(MaxLogged) :
                MarkProcessed(ids) =>
                    \A i \in 1..Len(events) :
                        events'[i].processed =
                            (events[i].processed \/ i \in ids)
          /\ last'.op # "markProcessed" =>
                \A i \in 1..Len(events) :
                    events'[i].processed = events[i].processed]_vars
    /\ [](\A c \in UnprocessedCalls :
            LET got == getUnprocessed(c.sessionId, [limit |-> c.limit])
            IN  \A k \in 1..Len(got) :
                    /\ ~got[k].processed
                    /\ ~events[got[k].id].processed)

\* Of two captured events the second has been marked processed:
\* getUnprocessed returns the first alone.
C38_Witness ==
    /\ last.op = "markProcessed"
    /\ Len(events) = 2
    /\ ~events[1].processed
    /\ events[2].processed
    /\ events[2].timestamp = StartTime
    /\ LET got == getUnprocessed(NULL, [limit |-> NULL])
       IN  Len(got) = 1 /\ got[1].id = 1

\* C39: a session is ended at most once.  end(id, summary) returns true
\* only for a session whose ended_at is unset, which it then ends; every
\* later end(id, .) returns false and changes neither ended_at nor summary;
\* no step changes an ended_at that is set; an ended session is never
\* returned by getCurrent or getOrCreate; and getCurrent returns an open
\* session with the greatest started_at when one exists.
C39_SessionEndedOnce ==
    /\ [][/\ \A i \in 1..Len(sessions) :
                sessions[i].ended_at # NULL =>
                    sessions'[i].ended_at = sessions[i].ended_at
          /\ \A id \in IdSpace(MaxSessions), summary \in Summaries :
                EndSession(id, summary) =>
                    LET open == /\ id \in 1..Len(sessions)
                                /\ sessions[id].ended_at = NULL
                    IN  /\ last'.ret = open
                        /\ open =>
                              sessions' =
                                [sessions EXCEPT
                                    ![id].ended_at = Some(now),
                                    ![id].summary =
                                        IF summary \in {NULL, Some("")}
                                        THEN NULL ELSE summary]
                        /\ ~open => sessions' = sessions
          /\ last'.op = "getOrCreate" =>
                /\ last'.ret.id \in 1..Len(sessions')
                /\ sessions'[last'.ret.id].ended_at = NULL
                /\ last'.ret.ended_at = NULL
          /\ last'.op = "createSession" =>
                sessions'[last'.ret.id].ended_at = NULL]_vars
    /\ [](\A current \in getCurrent :
            IF \E i \in 1..Len(sessions) : sessions[i].ended_at = NULL
            THEN /\ current # NULL
                 /\ Get(current).ended_at = NULL
                 /\ sessions[Get(current).id].ended_at = NULL
                 /\ \A i \in 1..Len(sessions) :
                        sessions[i].ended_at = NULL =>
                            sessions[i].started_at <= Get(current).started_at
            ELSE current = NULL)

\* The first session was ended with the summary "s" and a later end of it
\* has returned false; the second session, started half a day after the
\* first, is open and is the current one.
C39_Witness ==
    /\ last.op = "end"
    /\ last.arg = 1
    /\ last.ret = FALSE
    /\ Len(sessions) = 2
    /\ sessions[1].ended_at = Some(StartTime)
    /\ sessions[1].summary = Some("s")
    /\ sessions[2].started_at = StartTime + HalfDay
    /\ sessions[2].ended_at = NULL
    /\ now = StartTime + HalfDay
    /\ getCurrent = {Some(rowToSession(sessions[2]))}

\* The events stored under the session's id.
EventsOf(sessionId) ==
    {e \in 1..Len(events) : events[e].session_id = sessionId}

\* C40: after any sequence of completed capture, session-start and
\* session-end commands, every session's event_count equals the number of
\* stored events whose session_id is that session's id, and capture only
\* attaches its event to a session that was open when capture ran, creating
\* one when none was open.
C40_EventCountMatchesLog ==
    /\ [](/\ \A i \in 1..Len(sessions) :
                sessions[i].event_count = Cardinality(EventsOf(sessions[i].id))
          /\ \A e \in 1..Len(events) :
                events[e].session_id \in 1..Len(sessions))
    /\ [][CaptureCommand("tool_call") =>
            LET open == {i \in 1..Len(sessions) : sessions[i].ended_at = NULL}
                event == events'[Len(events')]
            IN  /\ Len(events') = Len(events) + 1
                /\ IF open # {}
                   THEN /\ event.session_id \in open
                        /\ Len(sessions') = Len(sessions)
                   ELSE /\ Len(sessions') = Len(sessions) + 1
                        /\ event.session_id = Len(sessions')
                        /\ sessions'[Len(sessions')].started_at = now
                /\ sessions'[event.session_id].ended_at = NULL]_vars

\* The first session holds one event and was ended; a capture after that
\* has opened a second session for its event.
C40_Witness ==
    /\ last.op = "captureCommand"
    /\ Len(sessions) = 2
    /\ sessions[1].ended_at # NULL
    /\ sessions[1].event_count = 1
    /\ sessions[2].ended_at = NULL
    /\ sessions[2].event_count = 1
    /\ Len(events) = 2
    /\ events[1].session_id = 1
    /\ events[2].session_id = 2

\* The effect of a call of adjustConfidence or applyConfidenceDecay that
\* works with the floor and the decay rate of the configuration config.
CallUses(config) ==
    /\ \A id \in IdSpace(MaxBeliefsDeep), delta \in ConfigDeltas :
          AdjustConfidence({id}, delta) =>
            \A i \in Rows :
                beliefs'[i].confidence =
                    IF i = id
                    THEN Max(config.minConfidenceFloor,
                             Min(MaxConfidence, beliefs[i].confidence + delta))
                    ELSE beliefs[i].confidence
    /\ ApplyConfidenceDecay =>
            \A i \in Rows :
                beliefs'[i].confidence =
                    IF /\ beliefs[i].invalidated_at = NULL
                       /\ beliefs[i].confidence > config.minConfidenceFloor
                    THEN Max(config.minConfidenceFloor,
                             beliefs[i].confidence
                               - config.confidenceDecayPerDay
                                   * SqlIntDiv(now - beliefs[i].last_evaluated,
                                               dayInMs))
                    ELSE beliefs[i].confidence

\* The configuration as it stands: the file's settings over the defaults.
StandingConfig ==
    [ minConfidenceFloor |->
        IF configFile # NULL /\ "minConfidenceFloor" \in DOMAIN Get(configFile)
        THEN Get(configFile).minConfidenceFloor ELSE minConfidenceFloor,
      confidenceDecayPerDay |->
        IF configFile # NULL
            /\ "confidenceDecayPerDay" \in DOMAIN Get(configFile)
        THEN Get(configFile).confidenceDecayPerDay
        ELSE confidenceDecayPerDay ]

\* C32: no configuration is remembered from an earlier call: the floor and
\* the decay rate used by each adjustConfidence and applyConfidenceDecay
\* call are those of the configuration as it stands at the time of that
\* call.
C32_ConfigurationAtCallTime ==
    [][(last'.op \in {"adjustConfidence", "applyConfidenceDecay"})
          => CallUses(StandingConfig)]_vars

\* C32, amended: the loader's cache is kept across calls: each call uses
\* the configuration the cache holds (loaded by the first call since the
\* start or the last resetConfig, or written by saveConfig), reads the
\* file only when the cache is empty, and leaves what it used in the cache.
C32_ConfigurationOfCache ==
    [][(last'.op \in {"adjustConfidence", "applyConfidenceDecay"})
          => LET used == IF cachedConfig # NULL THEN Get(cachedConfig)
                         ELSE StandingConfig
             IN  /\ CallUses(used)
                 /\ cachedConfig' = Some(used)
                 /\ configFile' = configFile]_vars

\* A sweep loaded the default configuration; the file was then given the
\* floor 0.5; the adjustment that followed brought the belief to 0.3.
C32_Witness ==
    /\ last.op = "adjustConfidence"
    /\ configFile = Some([minConfidenceFloor |-> 500])
    /\ cachedConfig = Some(DEFAULT_CONFIG)
    /\ Len(beliefs) = 1
    /\ beliefs[1].confidence = minConfidenceFloor

\* The rows whose confidence a step changes.
Changed == {i \in Rows : beliefs'[i].confidence # beliefs[i].confidence}

\* The rows a decay sweep has to change: the active rows above the floor
\* that the elapsed whole days take something from.
DueForDecay ==
    {i \in Rows :
        /\ beliefs[i].invalidated_at = NULL
        /\ beliefs[i].confidence > minConfidenceFloor
        /\ SqlIntDiv(now - beliefs[i].last_evaluated, dayInMs) # 0}

\* The rows adjustConfidence(ids, delta) has to change: the listed rows
\* whose clamped sum differs from their confidence.
DueForAdjustment(ids, delta) ==
    {i \in ids \cap Rows :
        Max(minConfidenceFloor, Min(MaxConfidence, beliefs[i].confidence + delta))
            # beliefs[i].confidence}

\* C31: applyConfidenceDecay and adjustConfidence are each atomic over the
\* rows they target: between the calls of other callers there is no state
\* in which only some of the targeted beliefs have had their confidence
\* changed: the one step of a sweep changes all the rows the call has to
\* change.
C31_SweepsAreAtomic ==
    [][/\ last'.op = "applyConfidenceDecay" => Changed = DueForDecay
       /\ \A ids \in AdjustedIds, delta \in SweepDeltas :
              AdjustConfidence(ids, delta) =>
                  Changed = DueForAdjustment(ids, delta)]_vars

\* One decay sweep has taken both of two active beliefs to the floor and
\* has returned 2.
C31_Witness ==
    /\ last.op = "applyConfidenceDecay"
    /\ last.ret = 2
    /\ Len(beliefs) = 2
    /\ \A i \in Rows :
          /\ beliefs[i].invalidated_at = NULL
          /\ beliefs[i].confidence = minConfidenceFloor

\* The invalidate calls made on belief id, and those of them that have
\* returned true.
InvalidateCalls(id) ==
    {c \in 1..Len(calls) : calls[c].op = "invalidate" /\ calls[c].id = id}

Winners(id) ==
    {c \in InvalidateCalls(id) : calls[c].pc = "done" /\ calls[c].ret = TRUE}

\* C36: however the invalidate calls of concurrent callers on one active
\* belief interleave, exactly one of them returns true (no second one ever
\* does, and as soon as any has returned one has returned true), and the
\* invalidated_at and invalidation_reason stored are the time and the
\* reason of that call; until then the belief stays active.
C36_OneInvalidateWins ==
    \A id \in 1..Len(beliefs) :
        /\ Cardinality(Winners(id)) <= 1
        /\ (\E c \in InvalidateCalls(id) : calls[c].pc = "done")
                => Cardinality(Winners(id)) = 1
        /\ \A c \in Winners(id) :
                /\ beliefs[id].invalidated_at = Some(calls[c].time)
                /\ beliefs[id].invalidation_reason = Some(calls[c].arg)
        /\ Winners(id) = {} => beliefs[id].invalidated_at = NULL

\* Two calls on the same belief, begun at different times for different
\* reasons, have both returned, and the one begun first returned false.
C36_Witness ==
    /\ Len(calls) >= 2
    /\ calls[1].op = "invalidate" /\ calls[2].op = "invalidate"
    /\ calls[1].id = calls[2].id
    /\ calls[1].pc = "done" /\ calls[2].pc = "done"
    /\ calls[1].time # calls[2].time
    /\ calls[1].arg # calls[2].arg
    /\ calls[1].ret = FALSE
    /\ calls[2].ret = TRUE

\* The calls of increment op made on belief id.
IncrementCalls(op, id) ==
    {c \in 1..Len(calls) : calls[c].op = op /\ calls[c].id = id}

\* C37: no increment is lost: a belief created with both counters at 0 has
\* supporting_count equal to the number of incrementSupporting calls made
\* on it and contradicting_count equal to the number of
\* incrementContradicting calls, however they interleave with the steps of
\* update calls that supply neither counter, with adjustConfidence,
\* applyConfidenceDecay and invalidate.
C37_IncrementsNeverLost ==
    \A id \in 1..Len(beliefs) :
        /\ beliefs[id].supporting_count =
                Cardinality(IncrementCalls("incrementSupporting", id))
        /\ beliefs[id].contradicting_count =
                Cardinality(IncrementCalls("incrementContradicting", id))

\* An increment ran between the first read and the last read of an update
\* call on the same belief: the update read the counter at 0 and returned
\* it at 1, together with the confidence it wrote.
C37_Witness ==
    /\ Len(calls) >= 2
    /\ calls[1].op = "update"
    /\ calls[1].pc = "done"
    /\ calls[2].op = "incrementSupporting"
    /\ calls[2].id = calls[1].id
    /\ Get(calls[1].existing).supporting_count = 0
    /\ Get(calls[1].ret).supporting_count = 1
    /\ Get(calls[1].ret).confidence = 300
    /\ beliefs[calls[1].id].supporting_count = 1
    /\ beliefs[calls[1].id].invalidated_at # NULL

====
